---- MODULE Spec2Model ----
(***************************************************************************)
(* Buddhabrot renderer: the sampling/accumulation kernel (render.c), its   *)
(* PCG32 generator, the workers' colour buffers with their merge into the  *)
(* summ buffer (worker.js) and the render pass that distributes chunks of  *)
(* samples over the sub-renderers (main.js, utils.js), the tone mapper     *)
(* (image_data.c), the worker's wasm instance with its memory (worker.js)  *)
(* and the count of sub-renderers used while animating (RenderCore).       *)
(*                                                                         *)
(* Numbers.  TLC's integers are 32-bit signed, so an unsigned 32-bit value *)
(* is kept as the pair <<hi, lo>> of its 16-bit halves and an unsigned     *)
(* 64-bit value as eight bytes, least significant first.  A double is      *)
(* modelled only where the code's arithmetic on it is exact: the samples   *)
(* (cx, cy) are taken on the integer grid -2 .. 2, on which z*z + c, the   *)
(* escape test and the projection with an integer matrix are computed      *)
(* without rounding.  The hue of the colour modes is the one place where   *)
(* the result is a fraction; it is computed in fixed point with FP units   *)
(* per 1.                                                                  *)
(***************************************************************************)
EXTENDS Integers, Sequences, FiniteSets, TLC

\* ------------------------------------------------------------------ bounds

\* Image width and height of the render kernel's buffer.
W == 4
H == 2
\* Largest trajectory length (iters) a behaviour is started with.
MaxIters == 3
\* Largest sample count of one render() call.
MaxSamples == 2
\* Samples accumulated over all render() calls of a behaviour.
MaxTotalSamples == 2

\* --------------------------------------------------------- unsigned 32-bit

Half == 65536

U32Zero == <<0, 0>>
\* 0xFFFFFFFF - n, for a small n
U32MaxMinus(n) == <<Half - 1, Half - 1 - n>>

\* x + n mod 2^32, n a non-negative integer below 2^31 (C: pix->r += inc.r)
U32AddInt(x, n) ==
    LET lo == x[2] + (n % Half)
        hi == x[1] + (n \div Half) + (lo \div Half)
    IN  <<hi % Half, lo % Half>>

\* x + y mod 2^32 (JS: buf[i] += src[i] on a Uint32Array)
U32Add(x, y) ==
    LET lo == x[2] + y[2]
        hi == x[1] + y[1] + (lo \div Half)
    IN  <<hi % Half, lo % Half>>

U32Leq(x, y) == x[1] < y[1] \/ (x[1] = y[1] /\ x[2] <= y[2])

\* ------------------------------------------------------- render.c: colours

PM_inner == 0
PM_outer == 1

CM_white_black == 0
CM_hue_atan_red == 1
CM_hue_atan_blue == 2
CM_hue_atan_green == 3
CM_hue_atan_asymm == 4
CM_hue_iters == 5

PointsModes == {PM_inner, PM_outer}
ColorModes == {CM_white_black, CM_hue_atan_red, CM_hue_atan_blue,
               CM_hue_atan_green, CM_hue_atan_asymm, CM_hue_iters}
HueAtanModes == {CM_hue_atan_red, CM_hue_atan_blue, CM_hue_atan_green,
                 CM_hue_atan_asymm}

\* Fixed point: FP units per 1.0.
FP == 4096
\* #define PI 3.1415926, in FP units
PI_FP == 12868
\* 0.1963 and 0.9817 of atan2, in FP units
AtanC3 == 804
AtanC1 == 4021

fabs(x) == IF x < 0 THEN -x ELSE x

\* atan2(y, x) of render.c for integer y, x; the result in FP units. abs_y is
\* fabs(y) + 1e-10, so the quotient is -1 at x = y = 0, where x + abs_y is
\* 1e-10 and x - abs_y is -1e-10.
atan2(y, x) ==
    LET abs_y == fabs(y)
        r == IF x < 0 THEN ((x + abs_y) * FP) \div (abs_y - x)
             ELSE IF x + abs_y = 0 THEN -FP
             ELSE ((x - abs_y) * FP) \div (x + abs_y)
        quarter == IF x < 0 THEN (3 * PI_FP) \div 4 ELSE PI_FP \div 4
        angle == quarter + ((((AtanC3 * ((r * r) \div FP)) \div FP) - AtanC1) * r) \div FP
    IN  IF y < 0 THEN -angle ELSE angle

hue2rgb(p, q, t0) ==
    LET t1 == IF t0 < 0 THEN t0 + FP ELSE t0
        t == IF t1 > FP THEN t1 - FP ELSE t1
    IN  IF 6 * t < FP THEN p + ((q - p) * 6 * t) \div FP
        ELSE IF 2 * t < FP THEN q
        ELSE IF 3 * t < 2 * FP THEN p + ((q - p) * (4 * FP - 6 * t)) \div FP
        ELSE p

\* floor(v * 255.999) for v in FP units
Chan(v) == (v * 255999) \div (FP * 1000)

hslToRgb(h, s, l) ==
    IF s = 0 THEN [r |-> Chan(l), g |-> Chan(l), b |-> Chan(l)]
    ELSE LET q == IF 2 * l < FP THEN (l * (FP + s)) \div FP
                  ELSE l + s - (l * s) \div FP
             p == 2 * l - q
         IN  [r |-> Chan(hue2rgb(p, q, h + FP \div 3)),
              g |-> Chan(hue2rgb(p, q, h)),
              b |-> Chan(hue2rgb(p, q, h - FP \div 3))]

\* if (inc.r == 0 && inc.g == 0 && inc.b == 0) inc.r += 2;
NotBlack(inc) ==
    IF inc.r = 0 /\ inc.g = 0 /\ inc.b = 0 THEN [inc EXCEPT !.r = 2] ELSE inc

\* ------------------------------------------------------ render.c: render()

VARIABLES
    buf,              \* struct Pixel buf[w * h] at __heap_base: pixel -> [r, g, b]
    points,           \* struct Point points[] behind it: slot -> [a, b]
    transformMatrix,  \* double transformMatrix[8], as <<m0, ..., m7>>
    iters,            \* the trajectory length the render() calls are made with
    pointsMode,       \* the points mode the render() calls are made with
    colorMode,        \* the colour mode the render() calls are made with
    rendered,         \* samples accumulated so far, over all calls
    lastCall          \* what the last render() call did (history)

renderVars == <<buf, points, transformMatrix, iters, pointsMode, colorMode,
                rendered, lastCall>>

VARIABLES
    pcg32_global,  \* per instance: the generator [state, inc]
    seededWith,    \* per instance: the seed of its last srand(), -1 before any
    drawn,         \* per instance: pcg32_random() calls since then
    lastOut,       \* per instance: the outputs since then, in order
    earlier        \* per instance: what it did before its last srand()

rngVars == <<pcg32_global, seededWith, drawn, lastOut, earlier>>

VARIABLES
    workerBufs,  \* per worker: its colour buffer, the src of a merge
    summBuf32,   \* renderCore.summBuf, the buffer the merges go to
    mergeSubs,   \* updateImageData's subRenderers array, those still to merge
    mergeClear,  \* updateImageData's `clear`
    mergeTaken   \* the workers merged so far, in the order taken (history)

mergeVars == <<workerBufs, summBuf32, mergeSubs, mergeClear, mergeTaken>>

VARIABLES
    passSamples,  \* opts.samples, in units of samplesChunkFast
    animLen,      \* renderCore.animationSubRederers.length
    bigCanvas,    \* the canvas is so large that fillImageData sleeps
    passNo,       \* the number of the runRendering pass, running or next
    aborted,      \* abortSignal.aborted of that pass
    pc,           \* where runRendering stands: idle, waitFirst, waitFree,
                  \* waitAll, finalUpdate, done
    loc,          \* runRendering's local variables
    jobs,         \* per sub-renderer: its _jobs['render'] and what the
                  \* task's callback closes over
    upd,          \* the updateImageData call in progress, if any
    summBuf,      \* renderCore.summBuf: the worker buffers merged into it
    canvas,       \* what putImageData drew last
    wq,           \* per worker: the requests posted to it, not yet handled
    wbuf,         \* per worker: its colour buffer and generator
    inbox,        \* the workers' answers, not yet handled by the main thread
    taskLog,      \* per sub-renderer: doReset of its tasks of the pass (history)
    staleRender,  \* per worker: it accumulated on a buffer not reset in
                  \* the task's pass (history)
    firstResult,  \* the merged buffer at the end of pass 1 (history)
    passHist      \* what was completed when the pass was aborted, and whether
                  \* summBuf was read while transferred (history)

passVars == <<passSamples, animLen, bigCanvas, passNo, aborted, pc, loc, jobs,
              upd, summBuf, canvas, wq, wbuf, inbox, taskLog, staleRender,
              firstResult, passHist>>

VARIABLES
    color_map_contrast,  \* image_data.c: the contrast color_map is kept for
    color_map,           \* unsigned char color_map[color_map_len]
    brightness_k,        \* float brightness_k, as the fraction <<num, den>>
    fptoint,             \* what the build makes of a float-to-integer
                         \* conversion whose value the integer cannot hold
    lastFill             \* what the last fillImageData() call did (history)

toneVars == <<color_map_contrast, color_map, brightness_k, fptoint, lastFill>>

VARIABLES
    WA_memory,    \* worker.js: the wasm memory's size, in pages of 64 KiB
    wasmState,    \* the instance's colour buffer, generator and matrix
    lastRequest   \* what the last 'render' request did (history)

workerVars == <<WA_memory, wasmState, lastRequest>>

VARIABLES
    hardwareConcurrency,  \* navigator.hardwareConcurrency
    animSubRederers,      \* renderCore.animationSubRederers, by SubRenderer.id
    avgRenderDiff,        \* renderCore.avgRenderDiff.values
    sinceChange           \* ratios added since animSubRederers last changed
                          \* (history)

animVars == <<hardwareConcurrency, animSubRederers, avgRenderDiff, sinceChange>>

VARIABLES
    redrawRequested,  \* main.js: the redraws chained and not yet settled
    redrawAbort,      \* the controller made last, by the redraw it is for
    redrawPromise,    \* the redraw whose promise is the tail of the chain
    abortedSignals,   \* the controllers abort() was called on
    redraws,          \* per redraw chained: what it waits for and where it is
    userState         \* how many handlers have changed rotation, zoom, options

redrawVars == <<redrawRequested, redrawAbort, redrawPromise, abortedSignals,
                redraws, userState>>

VARIABLES
    isOn,        \* control.js: controlDouble's isOn
    listeners,   \* the handlers registered on startElem and moveElem
    touchIds,    \* controlDouble's touchIds
    fingers,     \* the identifiers of the touches on the screen
    lastEvent    \* what the last event's handler did (history)

controlVars == <<isOn, listeners, touchIds, fingers, lastEvent>>

VARIABLES
    timeout,     \* utils.js debounce: whether a timer is pending
    elapsed,     \* the time since that timer was set, up to the interval
    mergedArgs,  \* debounce's mergedArgs (<<>>: null)
    sinceFired,  \* the arguments of the calls since the timer last fired
                 \* (history)
    fired        \* what func was called with, and after which calls (history)

debounceVars == <<timeout, elapsed, mergedArgs, sinceFired, fired>>

vars == <<renderVars, rngVars, mergeVars, passVars, toneVars, workerVars, animVars,
          redrawVars, controlVars, debounceVars>>

\* The variables of the components other than the one an action belongs to.
exceptRender ==
    <<rngVars, mergeVars, passVars, toneVars, workerVars,
      animVars, redrawVars, controlVars, debounceVars>>
exceptRng ==
    <<renderVars, mergeVars, passVars, toneVars, workerVars,
      animVars, redrawVars, controlVars, debounceVars>>
exceptMerge ==
    <<renderVars, rngVars, passVars, toneVars, workerVars,
      animVars, redrawVars, controlVars, debounceVars>>
exceptPass ==
    <<renderVars, rngVars, mergeVars, toneVars, workerVars,
      animVars, redrawVars, controlVars, debounceVars>>
exceptTone ==
    <<renderVars, rngVars, mergeVars, passVars, workerVars,
      animVars, redrawVars, controlVars, debounceVars>>
exceptWorker ==
    <<renderVars, rngVars, mergeVars, passVars, toneVars,
      animVars, redrawVars, controlVars, debounceVars>>
exceptAnim ==
    <<renderVars, rngVars, mergeVars, passVars, toneVars,
      workerVars, redrawVars, controlVars, debounceVars>>
exceptRedraw ==
    <<renderVars, rngVars, mergeVars, passVars, toneVars,
      workerVars, animVars, controlVars, debounceVars>>
exceptControl ==
    <<renderVars, rngVars, mergeVars, passVars, toneVars,
      workerVars, animVars, redrawVars, debounceVars>>
exceptDebounce ==
    <<renderVars, rngVars, mergeVars, passVars, toneVars,
      workerVars, animVars, redrawVars, controlVars>>

\* The variables of the other components while one is examined alone.
RenderIdle ==
    /\ buf = <<>> /\ points = <<>> /\ transformMatrix = <<>>
    /\ iters = 0 /\ pointsMode = 0 /\ colorMode = 0
    /\ rendered = 0 /\ lastCall = <<>>

RngIdle ==
    /\ pcg32_global = <<>> /\ seededWith = <<>> /\ drawn = <<>>
    /\ lastOut = <<>> /\ earlier = <<>>

MergeIdle ==
    /\ workerBufs = <<>> /\ summBuf32 = <<>> /\ mergeSubs = <<>>
    /\ mergeClear = FALSE /\ mergeTaken = <<>>

ToneIdle ==
    /\ color_map_contrast = 0 /\ color_map = <<>> /\ brightness_k = <<>>
    /\ fptoint = "" /\ lastFill = <<>>

WorkerIdle == WA_memory = 0 /\ wasmState = <<>> /\ lastRequest = <<>>

AnimIdle ==
    /\ hardwareConcurrency = 0 /\ animSubRederers = <<>>
    /\ avgRenderDiff = <<>> /\ sinceChange = 0

PassIdle ==
    /\ passSamples = 0 /\ animLen = 0 /\ bigCanvas = FALSE /\ passNo = 0
    /\ aborted = FALSE /\ pc = "idle" /\ loc = <<>> /\ jobs = <<>>
    /\ upd = <<>> /\ summBuf = <<>> /\ canvas = <<>> /\ wq = <<>>
    /\ wbuf = <<>> /\ inbox = <<>> /\ taskLog = <<>> /\ staleRender = <<>>
    /\ firstResult = <<>> /\ passHist = <<>>

RedrawIdle ==
    /\ redrawRequested = 0 /\ redrawAbort = 0 /\ redrawPromise = 0
    /\ abortedSignals = {} /\ redraws = <<>> /\ userState = 0

ControlIdle ==
    /\ isOn = FALSE /\ listeners = {} /\ touchIds = <<>> /\ fingers = {}
    /\ lastEvent = <<>>

DebounceIdle ==
    /\ timeout = FALSE /\ elapsed = 0 /\ mergedArgs = <<>>
    /\ sinceFired = <<>> /\ fired = <<>>

\* The values of (double)pcg32_random() / UINT32_MAX * 4 - 2 the model draws: the
\* generator's output taken in quarters of UINT32_MAX, 0 .. 4, gives -2 .. 2.
RandQuarters == {0, 2, 4}
Coord(q) == q - 2

\* The matrices the host writes into transformMatrix: the initial one of
\* render.c (x from b, y from a) and the c plane (x from cx, y from cy).
Matrices == { <<0, 1, 0, 0, 1, 0, 0, 0>>,
              <<0, 0, 1, 0, 0, 0, 0, 1>> }

Pixels == 0 .. W * H - 1
Slots == 0 .. MaxIters - 1

\* Mutant: every iterate stored at the head of the array.
StoreAtHead(iter) == 0

\* points[iter] = point, iter already decremented.
StoreAt(iter) == iter

\* The while (iter > 0) loop of one sample, from (a, b) with `iter` checks left.
\* Returns the loop's final iter (iters itself where the loop is never
\* entered), the trajectory array and whether a*a + b*b > 4 held at one of
\* the checks.
RECURSIVE Iterate(_, _, _, _, _, _)
Iterate(iter, a, b, cx, cy, pts) ==
    IF iter > 0
    THEN LET it == iter - 1
             aa == a * a
             bb == b * b
         IN  IF aa + bb > 4
             THEN [iter |-> it, points |-> pts, escaped |-> TRUE]
             ELSE LET nb == 2 * a * b + cy
                      na == aa - bb + cx
                  IN  Iterate(it, na, nb, cx, cy,
                              [pts EXCEPT ![StoreAt(it)] = [a |-> na, b |-> nb]])
    ELSE [iter |-> iter, points |-> pts, escaped |-> FALSE]

\* if ((points_mode == PM_inner && iter == 0) || (points_mode == PM_outer && iter != 0))
Selected(points_mode, iter) ==
    \/ (points_mode = PM_inner /\ iter = 0)
    \/ (points_mode = PM_outer /\ iter # 0)

\* a * m0 + b * m1 + cx * m2 + cy * m3 and a * m4 + b * m5 + cx * m6 + cy * m7
UnitX(m, p, cx, cy) == p.a * m[1] + p.b * m[2] + cx * m[3] + cy * m[4]
UnitY(m, p, cx, cy) == p.a * m[5] + p.b * m[6] + cx * m[7] + cy * m[8]

\* Mutant: [-2, 2] mapped onto the closed range 0 .. size - 1.
PixCoordClosed(u, size) == ((u + 2) * (size - 1)) \div 4

\* int x = floor(((u + 2) / 4) * w)
PixCoord(u, size) == ((u + 2) * size) \div 4

\* if (x >= 0 && y >= 0 && x < w && y < h)
InBounds(x, y, w, h) == x >= 0 /\ y >= 0 /\ x < w /\ y < h

\* Mutant: the row stride taken from the other dimension.
PixIndexTransposed(x, y, w) == x * H + y

\* &buf[x + y * w]
PixIndex(x, y, w) == x + y * w

\* The k range of the colour mode's loop: k = iter (white_black, hue_iters) or
\* k = iter + 1 (hue_atan_*) up to k < iters resp. k < iters - 1.
FirstK(color_mode, iter) == IF color_mode \in HueAtanModes THEN iter + 1 ELSE iter

EndKWhole(color_mode, n) == n

EndK(color_mode, n) == IF color_mode \in HueAtanModes THEN n - 1 ELSE n

\* points[k]; what lies beside the array reads as the zero point.
PointAt(pts, k) == IF k \in DOMAIN pts THEN pts[k] ELSE [a |-> 0, b |-> 0]

\* The hue of the four hue_atan modes at slot k, in FP units.
HueAtan(color_mode, pts, k) ==
    LET a == pts[k].a
        b == pts[k].b
        prev == PointAt(pts, k - 1)
        next == PointAt(pts, k + 1)
        angle0 == atan2(b - prev.b, a - prev.a)
        angle1 ==
            IF color_mode = CM_hue_atan_red
            THEN atan2(next.b - b, next.a - a)
            ELSE IF color_mode = CM_hue_atan_blue
            THEN atan2(-next.b + prev.b, -next.a + prev.a)
            ELSE IF color_mode = CM_hue_atan_green
            THEN atan2(-next.b + b, -next.a + a)
            ELSE atan2(next.b - a, next.a - b)
        hue == (fabs(angle1 - angle0) * FP) \div PI_FP
    IN  IF hue > FP
        THEN (IF color_mode = CM_hue_atan_blue THEN hue - FP ELSE 2 * FP - hue)
        ELSE hue

\* CM_hue_iters with iter == 0: the hue of the first slot k >= 1 that is within
\* 0.01 of slot 0 on both axes (equal, on the integer grid), else 0.
RECURSIVE CycleHue(_, _, _)
CycleHue(pts, k, n) ==
    IF k >= n THEN 0
    ELSE IF pts[k].a = pts[0].a /\ pts[k].b = pts[0].b
         THEN ((k - 1) % 16) * (FP \div 16)
         ELSE CycleHue(pts, k + 1, n)

\* Mutant: a colour mode without a case runs the last case's loop.
HasCaseAlways(color_mode) == TRUE

\* switch (color_mode): the six cases; default: break.
HasCase(color_mode) == color_mode \in ColorModes

\* The slots the search of CycleHue reads: points[k] and points[iter], iter
\* being 0, up to the slot it stops at.
RECURSIVE CycleReads(_, _, _)
CycleReads(pts, k, n) ==
    IF k >= n THEN {}
    ELSE {0, k} \cup (IF pts[k].a = pts[0].a /\ pts[k].b = pts[0].b THEN {}
                     ELSE CycleReads(pts, k + 1, n))

\* The slots read for slot k of the colour mode's loop: points[k], and its
\* two neighbours where a hue_atan mode computes the angles.
SlotReads(color_mode, k, hit) ==
    IF color_mode \in HueAtanModes /\ hit THEN {k - 1, k, k + 1} ELSE {k}

\* The increment added for slot k.
Increment(color_mode, pts, k, iter, n) ==
    IF color_mode = CM_white_black THEN [r |-> 1, g |-> 1, b |-> 1]
    ELSE IF color_mode \in HueAtanModes
    THEN hslToRgb(HueAtan(color_mode, pts, k), FP, FP \div 2)
    ELSE IF iter = 0
    THEN LET hue == CycleHue(pts, 1, n)
         IN  NotBlack(hslToRgb(hue, FP, hue \div 2))
    ELSE NotBlack(hslToRgb(((n - iter) * FP) \div n, FP, FP \div 2))

\* pix->r += inc.r; pix->g += inc.g; pix->b += inc.b;
AddToPixel(pix, inc) ==
    [r |-> U32AddInt(pix.r, inc.r),
     g |-> U32AddInt(pix.g, inc.g),
     b |-> U32AddInt(pix.b, inc.b)]

\* The colour mode's loop for (k = ...; k < end; k++) of one sample: the buffer
\* after it and, per slot plotted, where it projected and what was written.
RECURSIVE Accumulate(_, _, _, _, _, _, _, _, _, _, _)
Accumulate(b0, plots, k, end, color_mode, pts, iter, n, m, cx, cy) ==
    IF k >= end THEN [buf |-> b0, plots |-> plots]
    ELSE LET ux == UnitX(m, pts[k], cx, cy)
             uy == UnitY(m, pts[k], cx, cy)
             x == PixCoord(ux, W)
             y == PixCoord(uy, H)
             hit == InBounds(x, y, W, H)
             idx == PixIndex(x, y, W)
             inc == IF hit THEN Increment(color_mode, pts, k, iter, n)
                    ELSE [r |-> 0, g |-> 0, b |-> 0]
             b1 == IF hit THEN [b0 EXCEPT ![idx] = AddToPixel(b0[idx], inc)] ELSE b0
             plot == [k |-> k, ux |-> ux, uy |-> uy, x |-> x, y |-> y,
                      hit |-> hit, idx |-> idx, inc |-> inc,
                      reads |-> SlotReads(color_mode, k, hit)]
         IN  Accumulate(b1, Append(plots, plot), k + 1, end, color_mode, pts,
                        iter, n, m, cx, cy)

\* One pass of the for (i ...) loop body: the sample (cx, cy), its trajectory
\* and its accumulation.
RenderSample(b0, pts0, m, n, points_mode, color_mode, cx, cy) ==
    LET tr == Iterate(n, cx, cy, cx, cy, pts0)
        sel == Selected(points_mode, tr.iter)
        acc == IF sel /\ HasCase(color_mode)
               THEN Accumulate(b0, <<>>, FirstK(color_mode, tr.iter),
                               EndK(color_mode, n), color_mode, tr.points,
                               tr.iter, n, m, cx, cy)
               ELSE [buf |-> b0, plots |-> <<>>]
    IN  [buf |-> acc.buf, points |-> tr.points,
         sample |-> [cx |-> cx, cy |-> cy, iter |-> tr.iter,
                     escaped |-> tr.escaped, selected |-> sel,
                     plots |-> acc.plots,
                     cycleReads |-> IF sel /\ color_mode = CM_hue_iters /\ tr.iter = 0
                                    THEN CycleReads(tr.points, 1, n) ELSE {}]]

\* The k-th value pcg32_random() returns from now on: the generator's stream
\* after the seeding is `gen`, a cycle, of which `at` values were drawn.
GenValue(draws, k) == draws.gen[((draws.at + k - 1) % Len(draws.gen)) + 1]

\* Mutant: a sample that escaped draws a third value.
GenAfterEscape(at, sample) == IF sample.escaped THEN at + 3 ELSE at + 2

\* Lines 176-177: the two calls of pcg32_random() of a sample, the only ones.
GenAfter(at, sample) == at + 2

\* for (int i = 0; i < samples; i++) over the generator's draws
RECURSIVE RenderLoop(_, _, _, _, _, _, _, _, _, _)
RenderLoop(i, samples, b0, pts0, log, m, n, points_mode, color_mode, draws) ==
    IF i < samples
    THEN LET s == RenderSample(b0, pts0, m, n, points_mode, color_mode,
                               Coord(GenValue(draws, 1)), Coord(GenValue(draws, 2)))
         IN  RenderLoop(i + 1, samples, s.buf, s.points, Append(log, s.sample),
                        m, n, points_mode, color_mode,
                        [draws EXCEPT !.at = GenAfter(@, s.sample)])
    ELSE [buf |-> b0, points |-> pts0, log |-> log, drawn |-> draws.at]

\* A buffer whose counters all hold c, and a trajectory array holding p.
FilledBuf(c) == [i \in Pixels |-> [r |-> c, g |-> c, b |-> c]]
FilledPoints(p) == [k \in Slots |-> p]

NoCall == [called |-> FALSE, samples |-> 0, before |-> FilledBuf(U32Zero),
           log |-> <<>>, gen |-> <<>>, drawn |-> 0]

\* The kernel starts on a cleared buffer and zeroed memory, or continues a
\* buffer that earlier calls have filled: counters of any height are reached by
\* accumulation alone (every point of every sample lands on one pixel under a
\* matrix that maps them there), and the trajectory array then holds what the
\* last sample left (here the orbit of c = -2, which stays at 2).
InitRender ==
    /\ RngIdle /\ MergeIdle /\ PassIdle /\ ToneIdle /\ WorkerIdle /\ AnimIdle
    /\ RedrawIdle /\ ControlIdle /\ DebounceIdle
    /\ \/ /\ buf = FilledBuf(U32Zero)
          /\ points = FilledPoints([a |-> 0, b |-> 0])
       \/ /\ buf = FilledBuf(U32MaxMinus(1))
          /\ points = FilledPoints([a |-> 2, b |-> 0])
    /\ transformMatrix \in Matrices
    /\ iters \in 1 .. MaxIters
    /\ pointsMode \in PointsModes
    /\ colorMode \in ColorModes
    /\ rendered = 0
    /\ lastCall = NoCall

\* Mode numbers render() has no case for, and iteration depths without a
\* single escape check: render() takes any int for each.
UnknownModes == {-1, 6}
EdgeIters == {-1, 0, 2}

\* The kernel entered with arguments beside those the page's lists offer.
InitRenderEdge ==
    /\ RngIdle /\ MergeIdle /\ PassIdle /\ ToneIdle /\ WorkerIdle /\ AnimIdle
    /\ RedrawIdle /\ ControlIdle /\ DebounceIdle
    /\ \/ /\ buf = FilledBuf(U32Zero)
          /\ points = FilledPoints([a |-> 0, b |-> 0])
       \/ /\ buf = FilledBuf(U32MaxMinus(1))
          /\ points = FilledPoints([a |-> 2, b |-> 0])
    /\ transformMatrix \in Matrices
    /\ iters \in EdgeIters
    /\ pointsMode \in PointsModes \cup UnknownModes
    /\ colorMode \in {CM_white_black, CM_hue_atan_red, CM_hue_iters} \cup UnknownModes
    /\ rendered = 0
    /\ lastCall = NoCall

\* Mutant: the buffer is zeroed at entry, as an earlier worker did before
\* every render (buf.fill(0)).
RenderResultCleared(samples, draws) ==
    RenderLoop(0, samples, FilledBuf(U32Zero), points, <<>>, transformMatrix,
               iters, pointsMode, colorMode, draws)

\* What render() computes from the memory it is entered with: buf and points
\* are the regions at __heap_base, neither is initialised by the call.
RenderResult(samples, draws) ==
    RenderLoop(0, samples, buf, points, <<>>, transformMatrix,
               iters, pointsMode, colorMode, draws)

\* render(W, H, iters, samples, pointsMode, colorMode), the generator yielding
\* `draws`; the modes and iters are those of the pass, fixed at its start.
render(samples, draws) ==
    /\ rendered + samples <= MaxTotalSamples
    /\ \E res \in {RenderResult(samples, draws)} :
           /\ buf' = res.buf
           /\ points' = res.points
           /\ lastCall' = [called |-> TRUE, samples |-> samples,
                           before |-> buf, log |-> res.log,
                           gen |-> draws.gen, drawn |-> res.drawn]
    /\ rendered' = rendered + samples
    /\ UNCHANGED <<transformMatrix, iters, pointsMode, colorMode>>
    /\ UNCHANGED exceptRender

RenderCall ==
    \E samples \in 0 .. MaxSamples :
        \E gen \in [1 .. 2 * samples -> RandQuarters] :
            render(samples, [gen |-> gen, at |-> 0])

NextRender == RenderCall

\* ------------------------------------------------- render(): the claims

Channels == {"r", "g", "b"}
Chan32(pix, c) == IF c = "r" THEN pix.r ELSE IF c = "g" THEN pix.g ELSE pix.b

\* All plots of the last call, in order.
RECURSIVE Flatten(_)
Flatten(log) ==
    IF log = <<>> THEN <<>> ELSE Head(log).plots \o Flatten(Tail(log))
LastPlots == Flatten(lastCall.log)
PlotSet == {LastPlots[j] : j \in 1 .. Len(LastPlots)}

\* C1 (as stated): over a render() call no r, g or b counter of a pixel
\* decreases.
C1_NoCounterDecreases ==
    lastCall.called =>
        \A i \in Pixels : \A c \in Channels :
            U32Leq(Chan32(lastCall.before[i], c), Chan32(buf[i], c))

\* C2 (as stated): a sample is accumulated in inner mode exactly if no escape
\* check of its trajectory found a*a + b*b > 4, and in outer mode exactly if one
\* did, whichever check that was.
C2_SelectedIffEscape ==
    \A j \in 1 .. Len(lastCall.log) :
        LET s == lastCall.log[j]
        IN  s.selected <=> IF pointsMode = PM_inner THEN ~s.escaped ELSE s.escaped

\* C3 (as stated): a point whose unit coordinate is exactly +2 or exactly -2 on
\* either axis increments no pixel.
C3_BothEdgesOutside ==
    \A p \in PlotSet : (fabs(p.ux) = 2 \/ fabs(p.uy) = 2) => ~p.hit

\* C3 (amended): a unit coordinate of exactly +2 on either axis is out of
\* bounds whatever the other axis is; exactly -2 is pixel coordinate 0 and in
\* bounds; a point is plotted exactly if -2 <= u < 2 holds on both axes.
C3_HalfOpenEdges ==
    \A p \in PlotSet :
        /\ (p.ux = 2 \/ p.uy = 2) => ~p.hit
        /\ p.ux = -2 => p.x = 0
        /\ p.uy = -2 => p.y = 0
        /\ p.hit <=> (-2 <= p.ux /\ p.ux < 2 /\ -2 <= p.uy /\ p.uy < 2)

\* A call plotted a point at exactly -2 on x, which was written, and one at
\* exactly +2 on y, which was not.
C3_Witness ==
    /\ \E p \in PlotSet : p.ux = -2 /\ p.hit
    /\ \E p \in PlotSet : p.uy = 2 /\ fabs(p.ux) < 2 /\ ~p.hit

\* The buffer `b0` after the increments of the plots from the j-th on, each
\* added at column x, row y of the W x H rectangle and dropped outside it.
RECURSIVE Replay(_, _, _)
Replay(b0, plots, j) ==
    IF j > Len(plots) THEN b0
    ELSE LET p == plots[j]
             x == ((p.ux + 2) * W) \div 4
             y == ((p.uy + 2) * H) \div 4
             inside == 0 <= x /\ x < W /\ 0 <= y /\ y < H
         IN  Replay(IF inside
                    THEN [b0 EXCEPT ![x + y * W] = AddToPixel(b0[x + y * W], p.inc)]
                    ELSE b0,
                    plots, j + 1)

\* C4: every write of a call goes to index x + y * w of a point that projects
\* to column 0 <= x < w and row 0 <= y < h, and the call changes the buffer by
\* exactly these writes: a point outside the rectangle changes no pixel.
C4_WritesInsideRectangle ==
    /\ DOMAIN buf = Pixels
    /\ \A p \in PlotSet :
          /\ p.hit => /\ 0 <= p.x /\ p.x < W /\ 0 <= p.y /\ p.y < H
                      /\ p.idx = p.x + p.y * W
          /\ ~p.hit => p.inc = [r |-> 0, g |-> 0, b |-> 0]
    /\ lastCall.called => buf = Replay(lastCall.before, LastPlots, 1)

\* A call wrote a pixel beyond the first column and the first row and
\* dropped a point that projected outside the rectangle.
C4_Witness ==
    /\ \E p \in PlotSet : p.hit /\ p.x > 0 /\ p.y > 0
    /\ \E p \in PlotSet : ~p.hit

\* C5: a call with samples = 0 leaves every counter as it was.
C5_ZeroSamplesNoChange ==
    (lastCall.called /\ lastCall.samples = 0) => buf = lastCall.before

\* A call with samples = 0 was made on a buffer that holds counts.
C5_Witness ==
    /\ lastCall.called
    /\ lastCall.samples = 0
    /\ buf # FilledBuf(U32Zero)

\* C6 (as stated): with points mode inner and iters = 1 a call adds nothing.
C6_InnerOneIterAddsNothing ==
    (lastCall.called /\ pointsMode = PM_inner /\ iters = 1)
        => buf = lastCall.before

\* C20: every slot of the trajectory array that render() reads is one of 0 ..
\* iters - 1; the hue_atan modes plot the slots iter + 1 .. iters - 2 only, and
\* none with iters <= 2.
C20_TrajectoryReadsInArray ==
    lastCall.called =>
        \A i \in 1 .. Len(lastCall.log) :
            /\ lastCall.log[i].cycleReads \subseteq 0 .. iters - 1
            /\ \A j \in 1 .. Len(lastCall.log[i].plots) :
                  /\ lastCall.log[i].plots[j].reads \subseteq 0 .. iters - 1
                  /\ colorMode \in HueAtanModes =>
                        /\ lastCall.log[i].plots[j].k >= lastCall.log[i].iter + 1
                        /\ lastCall.log[i].plots[j].k <= iters - 2
            /\ (colorMode \in HueAtanModes /\ iters <= 2)
                  => lastCall.log[i].plots = <<>>

C20_Witness ==
    /\ lastCall.called /\ colorMode \in HueAtanModes
    /\ \E i \in 1 .. Len(lastCall.log) :
          \E j \in 1 .. Len(lastCall.log[i].plots) :
              lastCall.log[i].plots[j].reads = {0, 1, iters - 1}

\* C21: a call of render() with a colour-mode number that has no case, or with
\* a points-mode number that is neither PM_inner nor PM_outer, accumulates
\* nothing: the pixel buffer after the call is the buffer before it, for
\* every sample count.
C21_UnknownModeAccumulatesNothing ==
    (lastCall.called /\ (colorMode \notin ColorModes \/ pointsMode \notin PointsModes))
        => buf = lastCall.before

\* A call with samples that the points mode selects and whose points fall on
\* the image, under a colour-mode number without a case.
C21_Witness ==
    /\ lastCall.called /\ iters > 0
    /\ colorMode \notin ColorModes /\ pointsMode \in PointsModes
    /\ \E i \in 1 .. Len(lastCall.log) :
          /\ lastCall.log[i].selected
          /\ lastCall.log[i].cx = 0 /\ lastCall.log[i].cy = 0
    /\ buf = lastCall.before

\* C37: a call of render() draws two generator values per sample and no
\* other: sample k has (cx, cy) from the values 2k - 1 and 2k of the stream
\* and the generator is left 2 * samples values on, whatever the points mode,
\* the colour mode, the matrix and the fate of the trajectories.
C37_TwoDrawsPerSample ==
    lastCall.called =>
        /\ lastCall.drawn = 2 * lastCall.samples
        /\ Len(lastCall.log) = lastCall.samples
        /\ \A k \in 1 .. lastCall.samples :
              /\ lastCall.log[k].cx = Coord(lastCall.gen[2 * k - 1])
              /\ lastCall.log[k].cy = Coord(lastCall.gen[2 * k])

\* A call of two samples of which the first escaped and was dropped and the
\* second did not.
C37_Witness ==
    /\ lastCall.called
    /\ lastCall.samples = 2
    /\ lastCall.log[1].escaped /\ ~lastCall.log[1].selected
    /\ ~lastCall.log[2].escaped

\* C23: a call of render() with iters <= 0 is rejected at entry: it draws no
\* sample and writes no counter.
C23_NonPositiveItersRejected ==
    (lastCall.called /\ iters <= 0)
        => (lastCall.log = <<>> /\ buf = lastCall.before)

\* The slots the iteration loop of sample s stored into: iters - 1 down to 0,
\* or down to the slot after the one whose check left the loop.
WrittenSlots(s, n) == IF s.escaped THEN s.iter + 1 .. n - 1 ELSE 0 .. n - 1

\* The slots read while accumulating sample s.
SampleReads(s) ==
    UNION {s.plots[j].reads : j \in 1 .. Len(s.plots)} \cup s.cycleReads

\* C25: every trajectory slot read while a sample is accumulated, as a plotted
\* point or as a neighbour, was written by that sample's iteration loop.
C25_ReadsWrittenInSample ==
    lastCall.called =>
        \A i \in 1 .. Len(lastCall.log) :
            SampleReads(lastCall.log[i]) \subseteq WrittenSlots(lastCall.log[i], iters)

\* The n-th iterate of z -> z^2 + c from z = c, as a point.
RECURSIVE Orbit(_, _, _)
Orbit(n, cx, cy) ==
    IF n = 0 THEN [a |-> cx, b |-> cy]
    ELSE LET z == Orbit(n - 1, cx, cy)
         IN  [a |-> z.a * z.a - z.b * z.b + cx, b |-> 2 * z.a * z.b + cy]

\* The number of iterates the loop of sample s stored.
Stored(s, n) == IF s.escaped THEN n - s.iter - 1 ELSE n

\* C30: the n-th iterate of a sample is stored at points[iters - n], both
\* components computed from the point before it; a sample that never escapes
\* ends with iter = 0 and has written every slot 0 .. iters - 1. (Stated of
\* the last sample of a call, whose array the call returns.)
C30_IteratesStoredBackwards ==
    (lastCall.called /\ lastCall.log # <<>>) =>
        LET s == lastCall.log[Len(lastCall.log)]
        IN  /\ \A n \in 1 .. Stored(s, iters) :
                  points[iters - n] = Orbit(n, s.cx, s.cy)
            /\ ~s.escaped => (s.iter = 0 /\ Stored(s, iters) = iters)

\* A sample at c = (-2, 0), which stays at (2, 0), fills an array of two or
\* more slots that held zeros.
C30_Witness ==
    /\ lastCall.called /\ lastCall.log # <<>> /\ iters >= 2
    /\ lastCall.before = FilledBuf(U32Zero)
    /\ LET s == lastCall.log[Len(lastCall.log)]
       IN  s.cx = -2 /\ s.cy = 0 /\ ~s.escaped /\ s.iter = 0
    /\ \A k \in 0 .. iters - 1 : points[k] = [a |-> 2, b |-> 0]



\* Seeds handed to srand(), and draws counted after a seeding.
MaxSeed == 2
MaxDraws == 3

\* Generator instances, one wasm instance per worker: two, to compare the
\* generator after two histories.
Instances == {1, 2}
Seeds == 0 .. MaxSeed

\* uint64_t as eight bytes, least significant first.
Byte == 256

RECURSIVE AddBytes(_, _, _, _)
AddBytes(x, y, k, carry) ==
    IF k > 8 THEN <<>>
    ELSE LET t == x[k] + y[k] + carry
         IN  <<t % Byte>> \o AddBytes(x, y, k + 1, t \div Byte)

\* x + y mod 2^64
U64Add(x, y) == AddBytes(x, y, 1, 0)

RECURSIVE ColSum(_, _, _, _)
ColSum(x, y, k, i) ==
    IF i > k THEN 0 ELSE x[i] * y[k + 1 - i] + ColSum(x, y, k, i + 1)

RECURSIVE MulBytes(_, _, _, _)
MulBytes(x, y, k, carry) ==
    IF k > 8 THEN <<>>
    ELSE LET t == ColSum(x, y, k, 1) + carry
         IN  <<t % Byte>> \o MulBytes(x, y, k + 1, t \div Byte)

\* x * y mod 2^64
U64Mul(x, y) == MulBytes(x, y, 1, 0)

\* x | 1
U64Or1(x) == [x EXCEPT ![1] = IF x[1] % 2 = 0 THEN x[1] + 1 ELSE x[1]]

U64Zero == <<0, 0, 0, 0, 0, 0, 0, 0>>

\* (uint64_t)n for 0 <= n < 2^31
U64FromInt(n) ==
    <<n % Byte, (n \div Byte) % Byte, (n \div (Byte * Byte)) % Byte,
      n \div (Byte * Byte * Byte), 0, 0, 0, 0>>

\* 6364136223846793005ULL = 0x5851F42D4C957F2D
PcgMultiplier == <<45, 127, 149, 76, 45, 244, 81, 88>>

\* static pcg32_random_t pcg32_global = {0x853c49e6748fea9bULL, 0xda3e39cb94b95bdbULL}
PcgInitial == [state |-> <<155, 234, 143, 116, 230, 73, 60, 133>>,
               inc |-> <<219, 91, 185, 148, 203, 57, 62, 218>>]

Pow2(n) == IF n = 0 THEN 1 ELSE IF n = 1 THEN 2 ELSE IF n = 2 THEN 4
           ELSE IF n = 3 THEN 8 ELSE IF n = 4 THEN 16 ELSE IF n = 5 THEN 32
           ELSE IF n = 6 THEN 64 ELSE 128

\* Bit i (0 = least significant) of a uint64_t, 0 beyond bit 63.
Bit(x, i) == IF i > 63 THEN 0 ELSE (x[(i \div 8) + 1] \div Pow2(i % 8)) % 2

Xor(a, b) == IF a = b THEN 0 ELSE 1

\* Bit i of xorshifted = ((oldstate >> 18u) ^ oldstate) >> 27u, a uint32_t.
XorShiftedBit(old, i) == Xor(Bit(old, i + 45), Bit(old, i + 27))

\* Bit i of (xorshifted >> rot) | (xorshifted << ((-rot) & 31)), rot = oldstate >> 59u.
OutputBit(old, i) == XorShiftedBit(old, (i + (old[8] \div 8)) % 32)

RECURSIVE BitsValue(_, _, _)
BitsValue(old, from, n) ==
    IF n = 0 THEN 0
    ELSE OutputBit(old, from) + 2 * BitsValue(old, from + 1, n - 1)

\* The uint32_t output computed from the old state, as <<hi, lo>>.
PcgOutput(old) == <<BitsValue(old, 16, 16), BitsValue(old, 0, 16)>>

\* pcg32_random_r: the generator after the step, and the value returned.
pcg32_random_r(rng) ==
    [rng |-> [state |-> U64Add(U64Mul(rng.state, PcgMultiplier), U64Or1(rng.inc)),
              inc |-> rng.inc],
     out |-> PcgOutput(rng.state)]

\* Mutant: rng->state = 0U is left out, so the old state leaks into the new.
pcg32_srandom_r_NoReset(rng, initstate, initseq) ==
    LET r0 == [state |-> rng.state, inc |-> U64Or1(U64Add(initseq, initseq))]
        r1 == pcg32_random_r(r0).rng
        r2 == [r1 EXCEPT !.state = U64Add(r1.state, initstate)]
    IN  pcg32_random_r(r2).rng

\* pcg32_srandom_r(rng, initstate, initseq)
pcg32_srandom_r(rng, initstate, initseq) ==
    LET r0 == [state |-> U64Zero, inc |-> U64Or1(U64Add(initseq, initseq))]
        r1 == pcg32_random_r(r0).rng
        r2 == [r1 EXCEPT !.state = U64Add(r1.state, initstate)]
    IN  pcg32_random_r(r2).rng

\* void srand(unsigned long seed) { pcg32_srandom(0, seed); }
srand(rng, seed) == pcg32_srandom_r(rng, U64Zero, U64FromInt(seed))

InitRng ==
    /\ RenderIdle /\ MergeIdle /\ PassIdle /\ ToneIdle /\ WorkerIdle /\ AnimIdle
    /\ RedrawIdle /\ ControlIdle /\ DebounceIdle
    /\ pcg32_global = [i \in Instances |-> PcgInitial]
    /\ seededWith = [i \in Instances |-> -1]
    /\ drawn = [i \in Instances |-> 0]
    /\ lastOut = [i \in Instances |-> <<>>]
    /\ earlier = [i \in Instances |-> {}]

\* An instance's srand(seed) export is called.
Srand(i, seed) ==
    /\ pcg32_global' = [pcg32_global EXCEPT ![i] = srand(pcg32_global[i], seed)]
    /\ seededWith' = [seededWith EXCEPT ![i] = seed]
    /\ drawn' = [drawn EXCEPT ![i] = 0]
    /\ lastOut' = [lastOut EXCEPT ![i] = <<>>]
    /\ earlier' = [earlier EXCEPT ![i] =
                       @ \cup (IF drawn[i] > 0 THEN {"draw"} ELSE {})
                         \cup (IF seededWith[i] \notin {-1, seed}
                                THEN {"seed"} ELSE {})]
    /\ UNCHANGED exceptRng

\* An instance draws: pcg32_random().
Random(i) ==
    /\ drawn[i] < MaxDraws
    /\ \E r \in {pcg32_random_r(pcg32_global[i])} :
          /\ pcg32_global' = [pcg32_global EXCEPT ![i] = r.rng]
          /\ lastOut' = [lastOut EXCEPT ![i] = Append(lastOut[i], r.out)]
    /\ drawn' = [drawn EXCEPT ![i] = drawn[i] + 1]
    /\ UNCHANGED <<seededWith, earlier>>
    /\ UNCHANGED exceptRng

NextRng ==
    \E i \in Instances :
        \/ \E seed \in Seeds : Srand(i, seed)
        \/ Random(i)

\* C7: two instances last seeded with the same value, whatever each drew or was
\* seeded with before, hold the same (state, inc) after the same number of
\* draws and have returned the same outputs since the seeding.
C7_SeedDeterminesStream ==
    \A i, j \in Instances :
        (seededWith[i] # -1 /\ seededWith[i] = seededWith[j] /\ drawn[i] = drawn[j])
            => /\ pcg32_global[i] = pcg32_global[j]
               /\ lastOut[i] = lastOut[j]

\* One instance seeded on a fresh generator, the other seeded with the same
\* value after draws and after another seed, both having drawn since.
C7_Witness ==
    \E i, j \in Instances :
        /\ seededWith[i] # -1 /\ seededWith[i] = seededWith[j]
        /\ earlier[i] = {} /\ earlier[j] = {"draw", "seed"}
        /\ drawn[i] = drawn[j] /\ drawn[i] = MaxDraws - 1

\* ------------------------------------ worker.js / main.js: merging buffers

\* Workers whose buffers are merged.
MaxMergeWorkers == 3

MergeWorkers == 0 .. MaxMergeWorkers - 1

\* Buffers of two 32-bit counters: empty, about to wrap, wrapping, half range.
BufPatterns ==
    { <<U32Zero, U32Zero>>,
      <<<<0, 1>>, U32MaxMinus(0)>>,
      <<U32MaxMinus(0), <<0, 1>>>>,
      <<<<Half \div 2, 0>>, <<Half \div 2, 0>>>> }

\* setColorBufTo(buf): buf.set(src)
setColorBufTo(src, b) == [i \in DOMAIN b |-> src[i]]

\* addColorBufTo(buf): buf[i] += src[i], stored into a Uint32Array
addColorBufTo(src, b) == [i \in DOMAIN b |-> U32Add(b[i], src[i])]

\* The 'add' request in the worker: if (clear) setColorBufTo else addColorBufTo
OnAddMessage(src, b, clear) ==
    IF clear THEN setColorBufTo(src, b) ELSE addColorBufTo(src, b)

\* Sequences over S without repetition.
RECURSIVE Arrangements(_)
Arrangements(S) ==
    IF S = {} THEN {<<>>}
    ELSE UNION { {<<x>> \o t : t \in Arrangements(S \ {x})} : x \in S }

SeqWithout(q, i) == SubSeq(q, 1, i - 1) \o SubSeq(q, i + 1, Len(q))

\* Mutant: the first sub-renderer is found, idle or not.
FindFirstIndex(subs, working) == 1

\* subRenderers.findIndex(x => !x.isWorkingOn('render')), 1-based, 0 for -1
FindIdleIndex(subs, working) ==
    IF \E i \in 1 .. Len(subs) : subs[i] \notin working
    THEN CHOOSE i \in 1 .. Len(subs) :
             /\ subs[i] \notin working
             /\ \A j \in 1 .. i - 1 : subs[j] \in working
    ELSE 0

\* freeSubI === -1 ? subRenderers.pop() : subRenderers.splice(freeSubI, 1)[0],
\* as the index taken
TakenIndex(subs, working) ==
    IF FindIdleIndex(subs, working) = 0 THEN Len(subs)
    ELSE FindIdleIndex(subs, working)

\* Mutant: `clear = false` is left out, so every merge replaces.
NextClearKept(clear) == clear

\* clear = false, after the first merge
NextClear(clear) == FALSE

InitMerge ==
    /\ RenderIdle /\ RngIdle /\ PassIdle /\ ToneIdle /\ WorkerIdle /\ AnimIdle
    /\ RedrawIdle /\ ControlIdle /\ DebounceIdle
    /\ workerBufs \in [MergeWorkers -> BufPatterns]
    /\ summBuf32 \in BufPatterns
    /\ mergeSubs \in UNION {Arrangements(S) : S \in SUBSET MergeWorkers \ {{}}}
    /\ mergeClear = TRUE
    /\ mergeTaken = <<>>

\* One turn of updateImageData's loop, with the worker's answer: the workers in
\* `working` have a render job, the others are free.
MergeOne(working) ==
    /\ mergeSubs # <<>>
    /\ \E i \in {TakenIndex(mergeSubs, working)} :
          /\ summBuf32' = OnAddMessage(workerBufs[mergeSubs[i]], summBuf32, mergeClear)
          /\ mergeTaken' = Append(mergeTaken, mergeSubs[i])
          /\ mergeSubs' = SeqWithout(mergeSubs, i)
    /\ mergeClear' = NextClear(mergeClear)
    /\ UNCHANGED workerBufs
    /\ UNCHANGED exceptMerge

NextMerge == \E working \in SUBSET MergeWorkers : MergeOne(working)

\* The workers of S merged in ascending order of their ids.
RECURSIVE MergeAscending(_, _, _)
MergeAscending(S, b, clear) ==
    IF S = {} THEN b
    ELSE LET w == CHOOSE x \in S : \A y \in S : x <= y
         IN  MergeAscending(S \ {w}, OnAddMessage(workerBufs[w], b, clear), FALSE)

TakenSet == {mergeTaken[i] : i \in 1 .. Len(mergeTaken)}

\* C9: when all listed workers are merged, whatever the order they were taken
\* in and whatever summBuf held before, summBuf is bit for bit what merging
\* them in ascending order gives.
C9_MergeOrderIrrelevant ==
    (mergeSubs = <<>> /\ mergeTaken # <<>>)
        => summBuf32 = MergeAscending(TakenSet, <<U32Zero, U32Zero>>, TRUE)

\* Three workers were merged in descending order, a counter wrapped in the
\* sum, and summBuf was not empty before.
C9_Witness ==
    /\ mergeSubs = <<>>
    /\ mergeTaken = <<2, 1, 0>>
    /\ workerBufs[0] = <<<<0, 1>>, U32MaxMinus(0)>>
    /\ workerBufs[1] = <<U32MaxMinus(0), <<0, 1>>>>
    /\ workerBufs[2] = <<<<Half \div 2, 0>>, <<Half \div 2, 0>>>>
    /\ summBuf32 = <<<<Half \div 2, 0>>, <<Half \div 2, 0>>>>

\* --------------------------------------------------- main.js: runRendering

\* navigator.hardwareConcurrency, and opts.samples at most.
NumWorkers == 2
MaxPassSamples == 8

\* samplesChunkFast and samplesChunkSlow, in units of samplesChunkFast.
SamplesChunkFast == 1
SamplesChunkSlow == 5

\* The passes made, one after the other.
PassNumbers == {1, 2}

Workers == 0 .. NumWorkers - 1

\* renderCore.allSubRederers, by SubRenderer.id
allSubRederers == [i \in 1 .. NumWorkers |-> i - 1]

\* renderCore.animationSubRederers, a prefix of allSubRederers
animationSubRederers == SubSeq(allSubRederers, 1, animLen)

Elements(q) == {q[i] : i \in 1 .. Len(q)}

\* const subRederers = isAnimating ? animationSubRederers : allSubRederers
SubRederers(isAnimating) ==
    IF isAnimating THEN animationSubRederers ELSE allSubRederers

NoJob == [busy |-> FALSE, chunk |-> 0, len |-> 0]

\* x.isWorkingOn('render'), as the set of the x it holds for
Working(jb) == {w \in Workers : jb[w].busy}

\* The call of updateImageData under way, with subRederers.length of the task
\* callback that made it (inUse); after its return, the sub-renderers it was
\* given (listed), in which pass, and that it has returned.
NoUpdate == [active |-> FALSE, owner |-> "none", subs |-> <<>>, clear |-> FALSE,
             sync |-> FALSE, phase |-> "none", snap |-> <<>>,
             listed |-> {}, pass |-> 0, returned |-> FALSE, inUse |-> 0]

\* A colour buffer with its generator: the seed of its last reset, the pass
\* that reset it and the samples accumulated since.
FreshBuf == [seed |-> -1, epoch |-> 0, n |-> 0]

\* summBuf: per worker, the buffers of it that were added in.
EmptyData == [w \in Workers |-> <<>>]

InitialLoc ==
    [taskI |-> 0, samplesRenderedAndRendering |-> 0, samplesRendered |-> 0,
     tasksRendered |-> 0, tasksNotYetOnCanvas |-> 0, isUpdatingImageData |-> FALSE,
     imageDataSlow |-> FALSE, firstRender |-> FALSE, restartedSubRenderers |-> <<>>,
     promises |-> 0, isAnimating |-> FALSE]

\* Mutant: every task resets its sub-renderer.
DoClearRunAlways(restarted, freeSub) == TRUE

\* const doClearRun = !restartedSubRenderers.has(freeSub)
DoClearRun(restarted, freeSub) == freeSub \notin Elements(restarted)

\* Math.min(isAnimating ? samplesChunkFast : samplesChunkSlow,
\*          samples - samplesRenderedAndRendering)
SamplesChunk(isAnimating, missing) ==
    IF (IF isAnimating THEN SamplesChunkFast ELSE SamplesChunkSlow) < missing
    THEN (IF isAnimating THEN SamplesChunkFast ELSE SamplesChunkSlow)
    ELSE missing

\* SubRenderer.render(w, h, doReset, ...args): the request posted
RenderRequest(id, doReset, chunk) ==
    [cmd |-> "render", reset |-> doReset, seed |-> id, chunk |-> chunk,
     pass |-> passNo, buf |-> <<>>, clear |-> FALSE]

\* SubRenderer.addBufTo(buf, clear): the request posted, buf transferred
AddRequest(b, clear) ==
    [cmd |-> "add", reset |-> FALSE, seed |-> -1, chunk |-> 0,
     pass |-> passNo, buf |-> b, clear |-> clear]

\* The state the main thread's handlers work on.
MainState ==
    [pc |-> pc, loc |-> loc, jobs |-> jobs, upd |-> upd, summBuf |-> summBuf,
     canvas |-> canvas, wq |-> wq, taskLog |-> taskLog]

\* Lines 150-159 and 197: the task for freeSub is made and posted.
Dispatch(M, freeSub) ==
    LET doClearRun == DoClearRun(M.loc.restartedSubRenderers, freeSub)
        samplesChunk == SamplesChunk(M.loc.isAnimating,
                            passSamples - M.loc.samplesRenderedAndRendering)
    IN  [M EXCEPT
            !.loc.restartedSubRenderers =
                IF freeSub \in Elements(@) THEN @ ELSE Append(@, freeSub),
            !.loc.samplesRenderedAndRendering = @ + samplesChunk,
            !.loc.taskI = @ + 1,
            !.loc.promises = @ + 1,
            !.jobs[freeSub] =
                [busy |-> TRUE, chunk |-> samplesChunk,
                 len |-> Len(SubRederers(M.loc.isAnimating))],
            !.wq[freeSub] = Append(@, RenderRequest(freeSub, doClearRun, samplesChunk)),
            !.taskLog[freeSub] = Append(@, doClearRun)]

\* Mutant: the signal is never seen aborted.
SignalNeverAborted == FALSE

\* abortSignal.aborted
SignalAborted == aborted

RECURSIVE LoopHead(_)
RECURSIVE AfterFirstRender(_)
RECURSIVE AfterFreeSub(_, _)

\* Lines 135-139: the loop's test and the wait for the first image.
LoopHead(M) ==
    IF M.loc.samplesRenderedAndRendering >= passSamples
    THEN [M EXCEPT !.pc = "waitAll"]
    ELSE LET isAnimating == M.loc.taskI < animLen * 2 /\ ~M.loc.imageDataSlow
             M1 == [M EXCEPT !.loc.isAnimating = isAnimating]
         IN  IF isAnimating /\ M.loc.taskI = animLen /\ ~M.loc.firstRender
             THEN [M1 EXCEPT !.pc = "waitFirst"]
             ELSE AfterFirstRender(M1)

\* Lines 141-145: a free sub-renderer is looked for, or raced for.
AfterFirstRender(M) ==
    IF SignalAborted THEN [M EXCEPT !.pc = "waitAll"]
    ELSE LET subs == SubRederers(M.loc.isAnimating)
             i == FindIdleIndex(subs, Working(M.jobs))
         IN  IF i = 0 THEN [M EXCEPT !.pc = "waitFree"]
             ELSE AfterFreeSub(M, subs[i])

\* Lines 147-198: the task is dispatched and the loop goes on.
AfterFreeSub(M, freeSub) ==
    IF SignalAborted THEN [M EXCEPT !.pc = "waitAll"]
    ELSE LoopHead(Dispatch(M, freeSub))

\* updateImageData has returned.
Returned(u) ==
    [NoUpdate EXCEPT !.listed = u.listed, !.pass = u.pass, !.returned = TRUE]

\* Lines 236-241 and 179-183 (in the loop) or 208-210 (at the end): the image
\* is on the canvas and updateImageData returns to its caller.
UpdateReturn(M, snap, slow) ==
    IF M.upd.owner = "final"
    THEN [M EXCEPT !.canvas = snap, !.upd = Returned(M.upd), !.pc = "done"]
    ELSE [M EXCEPT !.canvas = snap, !.upd = Returned(M.upd),
                   !.loc.imageDataSlow = slow,
                   !.loc.tasksNotYetOnCanvas = 0,
                   !.loc.isUpdatingImageData = FALSE,
                   !.loc.firstRender = TRUE,
                   !.loc.promises = @ - 1]

\* Line 236: fillImageData copies summBuf at once, and sleeps between its
\* chunks if it is not sync and the canvas is large.
AfterMergeLoop(M, slow) ==
    IF ~M.upd.sync /\ bigCanvas
    THEN [M EXCEPT !.upd.phase = "fill", !.upd.snap = M.summBuf.data]
    ELSE UpdateReturn(M, M.summBuf.data, slow)

\* Lines 226-233: one turn of updateImageData's loop, up to its await.
UpdateTurn(M, slow) ==
    IF M.upd.subs = <<>> THEN AfterMergeLoop(M, slow)
    ELSE LET i == TakenIndex(M.upd.subs, Working(M.jobs))
             subRenderer == M.upd.subs[i]
         IN  [M EXCEPT !.upd.subs = SeqWithout(@, i),
                       !.upd.phase = "add",
                       !.wq[subRenderer] = Append(@, AddRequest(M.summBuf, M.upd.clear)),
                       !.summBuf = [detached |-> TRUE, data |-> EmptyData]]

\* Mutant: the list without its first sub-renderer.
UpdateSubsTail(restarted) == Tail(restarted)

\* const subs = Array.from(restartedSubRenderers)
UpdateSubs(restarted) == restarted

\* The call updateImageData(renderCore, wasm, w, h, rc, subs, sync)
UpdateCall(M, owner, sync, slow) ==
    UpdateTurn([M EXCEPT !.upd = [active |-> TRUE, owner |-> owner,
                                  subs |-> UpdateSubs(M.loc.restartedSubRenderers),
                                  clear |-> TRUE, sync |-> sync,
                                  phase |-> "add", snap |-> <<>>,
                                  listed |-> Elements(M.loc.restartedSubRenderers),
                                  pass |-> passNo, returned |-> FALSE,
                                  inUse |-> 0]], slow)

\* Lines 199-210: all task promises are settled; the last image, if any task
\* is not yet on the canvas.
AfterAll(M, slow) ==
    IF M.pc = "waitAll" /\ M.loc.promises = 0
    THEN IF M.loc.tasksNotYetOnCanvas > 0
         THEN UpdateCall([M EXCEPT !.pc = "finalUpdate"], "final", TRUE, slow)
         ELSE [M EXCEPT !.pc = "done"]
    ELSE M

\* Mutant: the race is never settled.
RaceNeverWon(subs, id) == FALSE

\* Promise.race(subRederers.map(x => x.wait('render').then(() => x))) is
\* settled by the answer of sub-renderer `id`.
RaceWon(subs, id) == id \in Elements(subs)

\* Lines 160-196, up to the await: the callback of a finished render task of
\* sub-renderer `id`; then the loop, if it raced for a free sub-renderer.
OnRendered(M, id, timeUp, slow) ==
    LET job == M.jobs[id]
        M1 == [M EXCEPT !.jobs[id] = NoJob,
                        !.loc.tasksRendered = @ + 1,
                        !.loc.tasksNotYetOnCanvas = @ + 1,
                        !.loc.samplesRendered = @ + job.chunk]
        redraw == /\ M1.loc.tasksRendered >= job.len
                  /\ ~M1.loc.isUpdatingImageData
                  /\ (timeUp \/ M1.loc.tasksRendered = job.len)
        M2 == IF redraw
              THEN [UpdateCall([M1 EXCEPT !.loc.isUpdatingImageData = TRUE],
                               "loop", FALSE, slow) EXCEPT !.upd.inUse = job.len]
              ELSE [M1 EXCEPT !.loc.promises = @ - 1]
        M3 == IF M2.pc = "waitFree" /\ RaceWon(SubRederers(M2.loc.isAnimating), id)
              THEN AfterFreeSub(M2, id)
              ELSE M2
    IN  AfterAll(M3, slow)

\* Lines 232-233 after the worker's answer, and the next turn.
OnAdded(M, b, slow) ==
    LET M1 == [M EXCEPT !.summBuf = b, !.upd.clear = NextClear(@)]
        M2 == UpdateTurn(M1, slow)
        M3 == IF M.upd.owner = "loop" /\ ~M2.upd.active /\ M2.pc = "waitFirst"
              THEN AfterFirstRender(M2)
              ELSE M2
    IN  AfterAll(M3, slow)

\* fillImageData's last sleep is over.
OnFilled(M, slow) ==
    LET M2 == UpdateReturn(M, M.upd.snap, slow)
        M3 == IF M.upd.owner = "loop" /\ M2.pc = "waitFirst"
              THEN AfterFirstRender(M2)
              ELSE M2
    IN  AfterAll(M3, slow)

\* wasm.reset(w, h, seed), clear_color_buf(w, h) zeroing the colour buffer
clear_color_buf(b) == [b EXCEPT !.n = 0]
reset(b, seed, pass) == [clear_color_buf(b) EXCEPT !.seed = seed, !.epoch = pass]

\* The worker's 'render' request: if (reset) wasm.reset(...); wasm.render(...)
WorkerRender(b, msg) ==
    LET b1 == IF msg.reset THEN reset(b, msg.seed, msg.pass) ELSE b
    IN  [b1 EXCEPT !.n = @ + msg.chunk]

\* The worker's 'add' request: setColorBufTo or addColorBufTo on msg.buf
WorkerAdd(id, b, msg) ==
    [detached |-> FALSE,
     data |-> IF msg.clear THEN [EmptyData EXCEPT ![id] = <<b>>]
              ELSE [msg.buf.data EXCEPT ![id] = Append(@, b)]]

\* The merged buffer without the passes' numbers.
Normalize(data) ==
    [w \in Workers |-> [i \in 1 .. Len(data[w]) |->
        [seed |-> data[w][i].seed, n |-> data[w][i].n]]]

NoResult == [set |-> FALSE, data |-> <<>>]

\* Per sub-renderer the samples of its tasks of the pass whose callback has
\* run (doneBy); the same and the sub-renderers with a task in flight at the
\* moment the pass was aborted; whether fillImageData was given a summBuf
\* that was transferred to a worker.
NoHist ==
    [doneBy |-> [w \in Workers |-> 0], abortSet |-> FALSE,
     abortDone |-> [w \in Workers |-> 0], abortInFlight |-> {},
     detachedRead |-> FALSE]

InitPass ==
    /\ RenderIdle /\ RngIdle /\ MergeIdle /\ ToneIdle /\ WorkerIdle /\ AnimIdle
    /\ RedrawIdle /\ ControlIdle /\ DebounceIdle
    /\ passSamples \in 1 .. MaxPassSamples
    /\ animLen \in (NumWorkers + 1) \div 2 .. NumWorkers
    /\ bigCanvas \in BOOLEAN
    /\ passNo = 1
    /\ aborted = FALSE
    /\ pc = "idle"
    /\ loc = InitialLoc
    /\ jobs = [w \in Workers |-> NoJob]
    /\ upd = NoUpdate
    /\ summBuf = [detached |-> FALSE, data |-> EmptyData]
    /\ canvas = EmptyData
    /\ wq = [w \in Workers |-> <<>>]
    /\ wbuf = [w \in Workers |-> FreshBuf]
    /\ inbox = <<>>
    /\ taskLog = [w \in Workers |-> <<>>]
    /\ staleRender = [w \in Workers |-> FALSE]
    /\ firstResult = NoResult
    /\ passHist = NoHist

\* getOpts: samples is (parseInt(field) || 1000) * 1000, of any sign but zero;
\* here in thousands.
EdgeSamples == {-1}

\* The same, the samples field holding a negative number too.
InitPassEdge ==
    /\ RenderIdle /\ RngIdle /\ MergeIdle /\ ToneIdle /\ WorkerIdle /\ AnimIdle
    /\ RedrawIdle /\ ControlIdle /\ DebounceIdle
    /\ passSamples \in EdgeSamples \cup 1 .. MaxPassSamples
    /\ animLen \in (NumWorkers + 1) \div 2 .. NumWorkers
    /\ bigCanvas \in BOOLEAN
    /\ passNo = 1
    /\ aborted = FALSE
    /\ pc = "idle"
    /\ loc = InitialLoc
    /\ jobs = [w \in Workers |-> NoJob]
    /\ upd = NoUpdate
    /\ summBuf = [detached |-> FALSE, data |-> EmptyData]
    /\ canvas = EmptyData
    /\ wq = [w \in Workers |-> <<>>]
    /\ wbuf = [w \in Workers |-> FreshBuf]
    /\ inbox = <<>>
    /\ taskLog = [w \in Workers |-> <<>>]
    /\ staleRender = [w \in Workers |-> FALSE]
    /\ firstResult = NoResult
    /\ passHist = NoHist

\* The main thread's variables after a handler, and the result of pass 1.
MainBecomes(M) ==
    /\ pc' = M.pc /\ loc' = M.loc /\ jobs' = M.jobs /\ upd' = M.upd
    /\ summBuf' = M.summBuf /\ canvas' = M.canvas /\ wq' = M.wq
    /\ taskLog' = M.taskLog
    /\ firstResult' =
          IF M.pc = "done" /\ pc # "done" /\ passNo = 1 /\ ~aborted
          THEN [set |-> TRUE, data |-> Normalize(M.summBuf.data)]
          ELSE firstResult

\* redraw() calls runRendering: lines 99-134 and the loop up to its first wait.
StartPass ==
    /\ pc = "idle"
    /\ \E M \in {AfterAll(LoopHead([MainState EXCEPT
                    !.loc = InitialLoc,
                    !.taskLog = [w \in Workers |-> <<>>]]), FALSE)} :
          MainBecomes(M)
    /\ passHist' = [passHist EXCEPT !.doneBy = [w \in Workers |-> 0]]
    /\ UNCHANGED <<passSamples, animLen, bigCanvas, passNo, aborted, wbuf, inbox,
                   staleRender>>
    /\ UNCHANGED exceptPass

\* requestRedraw() aborts the signal of the pass.
Abort ==
    /\ ~aborted
    /\ pc # "done"
    /\ aborted' = TRUE
    /\ passHist' = [passHist EXCEPT !.abortSet = TRUE,
                                    !.abortDone = passHist.doneBy,
                                    !.abortInFlight = Working(jobs)]
    /\ UNCHANGED <<passSamples, animLen, bigCanvas, passNo, pc, loc, jobs, upd,
                   summBuf, canvas, wq, wbuf, inbox, taskLog, staleRender,
                   firstResult>>
    /\ UNCHANGED exceptPass

\* runRendering has returned; the next redraw, with a signal of its own.
NextRedraw ==
    /\ pc = "done"
    /\ passNo + 1 \in PassNumbers
    /\ pc' = "idle"
    /\ passNo' = passNo + 1
    /\ aborted' = FALSE
    /\ passHist' = [NoHist EXCEPT !.detachedRead = passHist.detachedRead]
    /\ UNCHANGED <<passSamples, animLen, bigCanvas, loc, jobs, upd,
                   summBuf, canvas, wq, wbuf, inbox, taskLog, staleRender,
                   firstResult>>
    /\ UNCHANGED exceptPass

\* A worker handles the request at the head of its queue (self.onmessage).
WorkerStep(id) ==
    /\ wq[id] # <<>>
    /\ wq' = [wq EXCEPT ![id] = Tail(@)]
    /\ \E msg \in {Head(wq[id])} :
          IF msg.cmd = "render"
          THEN /\ wbuf' = [wbuf EXCEPT ![id] = WorkerRender(@, msg)]
               /\ staleRender' = [staleRender EXCEPT ![id] =
                                     @ \/ wbuf'[id].epoch # msg.pass]
               /\ inbox' = Append(inbox, [from |-> id, cmd |-> "rendered", buf |-> <<>>])
          ELSE /\ inbox' = Append(inbox, [from |-> id, cmd |-> "added",
                                          buf |-> WorkerAdd(id, wbuf[id], msg)])
               /\ UNCHANGED <<wbuf, staleRender>>
    /\ UNCHANGED <<passSamples, animLen, bigCanvas, passNo, aborted, pc, loc,
                   jobs, upd, summBuf, canvas, taskLog, firstResult, passHist>>
    /\ UNCHANGED exceptPass

\* The main thread handles a 'rendered' answer (SubRenderer._onWorkerMessage).
ReceiveRendered ==
    /\ inbox # <<>>
    /\ Head(inbox).cmd = "rendered"
    /\ inbox' = Tail(inbox)
    /\ \E timeUp, slow \in BOOLEAN :
          \E M \in {OnRendered(MainState, Head(inbox).from, timeUp, slow)} :
              MainBecomes(M)
    /\ passHist' = [passHist EXCEPT !.doneBy[Head(inbox).from] =
                                        @ + jobs[Head(inbox).from].chunk]
    /\ UNCHANGED <<passSamples, animLen, bigCanvas, passNo, aborted, wbuf, staleRender>>
    /\ UNCHANGED exceptPass

\* The main thread handles an 'added' answer.
ReceiveAdded ==
    /\ inbox # <<>>
    /\ Head(inbox).cmd = "added"
    /\ inbox' = Tail(inbox)
    /\ \E slow \in BOOLEAN :
          \E M \in {OnAdded(MainState, Head(inbox).buf, slow)} :
              MainBecomes(M)
    /\ UNCHANGED <<passSamples, animLen, bigCanvas, passNo, aborted, wbuf,
                   staleRender, passHist>>
    /\ UNCHANGED exceptPass

\* fillImageData comes back from its last sleep(1).
FillDone ==
    /\ upd.active /\ upd.phase = "fill"
    /\ \E slow \in BOOLEAN :
          \E M \in {OnFilled(MainState, slow)} :
              MainBecomes(M)
    /\ UNCHANGED <<passSamples, animLen, bigCanvas, passNo, aborted, wbuf, inbox,
                   staleRender, passHist>>
    /\ UNCHANGED exceptPass

\* The contrast option is changed: updateImageData(renderCore, wasm, w, h, rc,
\* [], true) merges nothing and gives renderCore.summBuf to fillImageData,
\* whose inBuf.set(summBuf) throws on a transferred buffer.
ContrastChange ==
    /\ IF summBuf.detached
       THEN /\ passHist' = [passHist EXCEPT !.detachedRead = TRUE]
            /\ UNCHANGED canvas
       ELSE /\ canvas' = summBuf.data
            /\ UNCHANGED passHist
    /\ UNCHANGED <<passSamples, animLen, bigCanvas, passNo, aborted, pc, loc, jobs,
                   upd, summBuf, wq, wbuf, inbox, taskLog, staleRender,
                   firstResult>>
    /\ UNCHANGED exceptPass

\* The steps of WorkerStep(id), of ReceiveRendered and ReceiveAdded, and of
\* FillDone, by what they do to the queue, the inbox and the update.
WorkerAnswers(id) == wq[id] # <<>> /\ wq' = [wq EXCEPT ![id] = Tail(@)]
AnswerHandled == inbox # <<>> /\ inbox' = Tail(inbox)
FillReturned ==
    /\ upd.active /\ upd.phase = "fill"
    /\ upd' = Returned(upd)

NextPass ==
    \/ StartPass
    \/ Abort
    \/ NextRedraw
    \/ \E id \in Workers : WorkerStep(id)
    \/ ReceiveRendered
    \/ ReceiveAdded
    \/ FillDone
    \/ ContrastChange

\* The passes alone: the contrast option, which touches the canvas only and
\* nothing a pass waits for, is left as it is.
NextPassRuns ==
    \/ StartPass
    \/ Abort
    \/ NextRedraw
    \/ \E id \in Workers : WorkerStep(id)
    \/ ReceiveRendered
    \/ ReceiveAdded
    \/ FillDone

\* The render requests posted to a worker and not yet handled.
QueuedRenders(id) ==
    {wq[id][i] : i \in {j \in 1 .. Len(wq[id]) : wq[id][j].cmd = "render"}}

\* C8: in a pass, a sub-renderer's first task and none of its later ones
\* carries the reset; no worker accumulates samples of a pass on a buffer that
\* was not cleared and seeded in that pass; every reset seeds with the
\* sub-renderer's own id, so no two workers are seeded alike.
C8_ResetOnFirstTaskOnly ==
    /\ \A id \in Workers :
          \A i \in 1 .. Len(taskLog[id]) : taskLog[id][i] <=> (i = 1)
    /\ \A id \in Workers : ~staleRender[id]
    /\ \A id \in Workers :
          /\ \A msg \in QueuedRenders(id) : msg.reset => msg.seed = id
          /\ wbuf[id].epoch # 0 => wbuf[id].seed = id
    /\ \A id1, id2 \in Workers :
          (id1 # id2 /\ wbuf[id1].epoch # 0 /\ wbuf[id2].epoch # 0)
              => wbuf[id1].seed # wbuf[id2].seed

\* In the second pass every worker has handled two render tasks, on a buffer
\* that held the first pass's samples before.
C8_Witness ==
    /\ passNo = 2
    /\ firstResult.set
    /\ \A id \in Workers :
          /\ Len(taskLog[id]) >= 2
          /\ wbuf[id].epoch = 2
          /\ wbuf[id].n >= 2

\* C11 (as stated): once the pass is aborted, neither summBuf nor the canvas
\* holds, for a sub-renderer that had a task in flight at that moment, more
\* samples of the pass than its tasks completed before had rendered.
C11_InFlightDiscarded ==
    aborted =>
        \A id \in passHist.abortInFlight :
            /\ \A i \in 1 .. Len(summBuf.data[id]) :
                  summBuf.data[id][i].epoch = passNo
                      => summBuf.data[id][i].n <= passHist.abortDone[id]
            /\ \A i \in 1 .. Len(canvas[id]) :
                  canvas[id][i].epoch = passNo
                      => canvas[id][i].n <= passHist.abortDone[id]

\* The 'add' requests queued at the workers and their answers not yet
\* received: the merges under way.
AddsUnderWay ==
    Cardinality({p \in Workers \X (1 .. NumWorkers + 2) :
                    p[2] <= Len(wq[p[1]]) /\ wq[p[1]][p[2]].cmd = "add"})
    + Cardinality({i \in 1 .. Len(inbox) : inbox[i].cmd = "added"})

\* C12 (as stated): at most one merge holds summBuf at a time, no merge is
\* started on a transferred summBuf, and fillImageData is never given summBuf
\* while it is transferred.
C12_MergesSerialised ==
    /\ AddsUnderWay <= 1
    /\ \A id \in Workers :
          \A i \in 1 .. Len(wq[id]) :
              wq[id][i].cmd = "add" => ~wq[id][i].buf.detached
    /\ ~passHist.detachedRead

\* The render requests of sub-renderer id posted and not yet answered to the
\* main thread: queued at the worker, or answered with the answer in the inbox.
RendersInFlight(id) ==
    Cardinality({i \in 1 .. Len(wq[id]) : wq[id][i].cmd = "render"})
    + Cardinality({i \in 1 .. Len(inbox) :
                      inbox[i].from = id /\ inbox[i].cmd = "rendered"})

\* C26: a render task is handed only to a sub-renderer without a render job
\* in flight, so no sub-renderer ever has two (the case in which
\* _sendWorkerTask throws 'already running render'), over any sequence of
\* passes, aborted or not; and when a pass has returned none of its tasks is
\* still running.
C26_OneRenderPerSubRenderer ==
    /\ \A id \in Workers :
          RendersInFlight(id) = IF jobs[id].busy THEN 1 ELSE 0
    /\ pc = "done" => \A id \in Workers : RendersInFlight(id) = 0

\* In the second pass every sub-renderer is busy, the loop waits for the
\* first of them to finish, and one has been given a task more than once.
C26_Witness ==
    /\ passNo = 2 /\ pc = "waitFree"
    /\ Working(jobs) = Workers
    /\ \E id \in Workers : Len(taskLog[id]) >= 2

\* C27: once the abort signal of a pass is set, the pass posts no further
\* render task to any worker.
C27_NoDispatchAfterAbort ==
    [][aborted => \A id \in Workers :
                      /\ Len(taskLog'[id]) <= Len(taskLog[id])
                      /\ QueuedRenders(id)' \subseteq QueuedRenders(id)]_vars

\* An aborted pass has returned with samples it never handed out, having had
\* tasks in flight when the signal was set.
C27_Witness ==
    /\ aborted /\ pc = "done"
    /\ loc.samplesRenderedAndRendering < passSamples
    /\ passHist.abortInFlight # {}

\* C28: after a call of updateImageData with a non-empty list has returned,
\* summBuf holds one colour buffer of each listed sub-renderer and of no
\* other, each the buffer of that worker as reset in the pass of the call, so
\* no sample of an earlier pass and none twice.
C28_MergedExactlyTheListed ==
    (upd.returned /\ upd.listed # {}) =>
        /\ ~summBuf.detached
        /\ \A id \in Workers :
              Len(summBuf.data[id]) = IF id \in upd.listed THEN 1 ELSE 0
        /\ \A id \in upd.listed :
              /\ summBuf.data[id][1].seed = id
              /\ summBuf.data[id][1].epoch = upd.pass
              /\ wbuf[id].epoch = upd.pass => summBuf.data[id][1].n <= wbuf[id].n

\* An update of the second pass has merged every worker, one of them while
\* it was rendering, after the first pass had filled summBuf.
C28_Witness ==
    /\ upd.returned /\ upd.pass = 2 /\ upd.listed = Workers
    /\ firstResult.set
    /\ \E id \in Workers : summBuf.data[id][1].n < wbuf[id].n

\* The samples of the pass found in a merged image for worker id.
RECURSIVE SamplesOfPass(_, _)
SamplesOfPass(q, pass) ==
    IF q = <<>> THEN 0
    ELSE (IF Head(q).epoch = pass THEN Head(q).n ELSE 0) + SamplesOfPass(Tail(q), pass)

\* C31: when runRendering has returned, the image on the canvas holds, for
\* every sub-renderer, the samples of all its render tasks of the pass whose
\* callback has run, whatever the interleaving of the completions with an
\* image update in progress.
C31_CanvasHasEveryCompletedTask ==
    pc = "done" =>
        \A id \in Workers :
            SamplesOfPass(canvas[id], passNo) >= passHist.doneBy[id]

\* C34: provided every worker answers every request sent to it and the main
\* thread handles every answer and timer, a pass that has started eventually
\* returns, aborted or not.
C34_PassReturns == (pc # "idle") ~> (pc = "done")

\* A pass that waited for firstRender and raced for a free sub-renderer has
\* returned.
C34_Witness ==
    /\ pc = "done"
    /\ loc.firstRender
    /\ loc.taskI > NumWorkers + 1
    /\ loc.promises = 0

\* C35: samplesRenderedAndRendering never exceeds samples, samplesRendered
\* never exceeds samplesRenderedAndRendering, every task in flight has a
\* chunk of at least one sample, and a pass that was not aborted returns with
\* samplesRendered = samplesRenderedAndRendering = samples.
C35_SampleCountersExact ==
    pc # "idle" =>
        /\ loc.samplesRenderedAndRendering <= passSamples
        /\ loc.samplesRendered <= loc.samplesRenderedAndRendering
        /\ \A id \in Working(jobs) : jobs[id].chunk >= 1
        /\ (pc = "done" /\ ~aborted) =>
               /\ loc.samplesRendered = passSamples
               /\ loc.samplesRenderedAndRendering = passSamples

\* C36: while an image update made by a task callback of the loop is under
\* way, every sub-renderer of the set that callback's task was dispatched
\* under has completed a render task of the pass.
C36_UpdateAfterEveryThreadRendered ==
    (upd.active /\ upd.owner = "loop") =>
        \A id \in Workers : id < upd.inUse => passHist.doneBy[id] > 0

\* C10 (as stated): a second pass that is not aborted, with the parameters and
\* the workers of the first, ends with the merged buffer the first ended with,
\* whatever the order the workers' tasks completed in.
C10_SameBufferEveryOrder ==
    (passNo = 2 /\ pc = "done" /\ ~aborted /\ firstResult.set)
        => Normalize(summBuf.data) = firstResult.data

\* --------------------------------------------- image_data.c: the tone mapper

\* color_map_len is 1024 * 256 in image_data.c, fillImageData converts
\* 512 * 512 pixels per chunk and the drain budget is 0.001 of the strided
\* pixels; the images of the model have a few pixels, so the table has
\* ColorMapLen entries, a chunk has ChunkPixels pixels and the budget is
\* 1 / DrainDen of the strided pixels.
ColorMapLen == 4
ChunkPixels == 2
DrainDen == 2

histo_len == 256
HistoShrinkDen == 40  \* histo_shrink_k = 0.025 = 1 / HistoShrinkDen
IntMax == 2147483647
IntMin == -IntMax - 1

\* The calls: <<w, h, step>>. fillImageData passes step 1 .. 4 by the width
\* of the canvas; a width of 1 makes the luminance sum empty.
ToneShapes == {<<1, 3, 1>>, <<2, 2, 1>>, <<2, 2, 2>>}
Contrasts == {-1, 1, 2}
InPixelBlack == [r |-> 0, g |-> 0, b |-> 0]
InPixelDim == [r |-> 1, g |-> 0, b |-> 0]
InPixelMid == [r |-> 2, g |-> 12, b |-> 1]
InPixelBig == [r |-> 0, g |-> 0, b |-> 100000000]

\* The accumulated buffers handed in: the first pixel, the last pixel and the
\* pixels between them.
ToneBuf(w, h, first, rest, last) ==
    [pos \in 0 .. w * h - 1 |->
        IF pos = 0 THEN first ELSE IF pos = w * h - 1 THEN last ELSE rest]

ToneBufs(w, h) ==
    {ToneBuf(w, h, first, rest, InPixelBlack) :
        first \in {InPixelBlack, InPixelDim}, rest \in {InPixelBlack, InPixelMid}}
    \cup {ToneBuf(w, h, first, InPixelBlack, InPixelBig) :
              first \in {InPixelBlack, InPixelDim}}

\* Lines 35-40
lum(p) ==
    IF p.r >= p.g /\ p.r >= p.b THEN p.r ELSE IF p.g >= p.b THEN p.g ELSE p.b

RECURSIVE Gcd(_, _)
Gcd(a, b) == IF b = 0 THEN a ELSE Gcd(b, a % b)

\* The fraction num / den in lowest terms.
Frac(num, den) == <<num \div Gcd(num, den), den \div Gcd(num, den)>>

RECURSIVE IPow(_, _)
IPow(x, n) == IF n = 0 THEN 1 ELSE x * IPow(x, n - 1)

CeilDiv(a, b) == (a + b - 1) \div b

\* Body(value), with value computed once.
With(value, Body(_)) == CHOOSE r \in {Body(x) : x \in {value}} : TRUE

\* (unsigned char)(math_pow((double)i / color_map_len, contrast) * 255), line
\* 62. A negative contrast gives infinity at i = 0, which no integer holds:
\* the conversion saturates to 0xFFFFFFFF or gives 0, by the build; a finite
\* value beyond 255 keeps its low byte.
MapEntry(i, contrast) ==
    IF contrast > 0
    THEN (255 * IPow(i, contrast)) \div IPow(ColorMapLen, contrast)
    ELSE IF i = 0 THEN (IF fptoint = "saturate" THEN 255 ELSE 0)
    ELSE ((255 * IPow(ColorMapLen, -contrast)) \div IPow(i, -contrast)) % 256

\* Lines 61-62
MapTable(contrast) == [i \in 1 .. ColorMapLen |-> MapEntry(i - 1, contrast)]

\* Line 59
MapStale(cmc, contrast) == cmc # contrast

\* The pixels of the loops of lines 67-68 (upTo = 1) and 85-86 (upTo = 0).
Strided(w, h, step, upTo) ==
    {i + j * w : <<i, j>> \in
        {c \in (0 .. w - 1 - upTo) \X (0 .. h - 1 - upTo) :
            c[1] % step = 0 /\ c[2] % step = 0}}

RECURSIVE LumSum(_, _)
LumSum(b, cells) ==
    IF cells = {} THEN 0
    ELSE LET pos == CHOOSE x \in cells : TRUE
         IN  lum(b[pos]) + LumSum(b, cells \ {pos})

\* Line 89: int index = (l / avg_lum) * histo_len * histo_shrink_k, where
\* avg_lum = sum / ((float)(w * h) / (step * step)). A value beyond INT_MAX
\* converts to INT_MAX or to INT_MIN, by the build.
HistoIndex(l, sum, w, h, step) ==
    LET mul == w * h * histo_len
        den == HistoShrinkDen * sum * step * step
        q == l \div den
        t == ((l % den) * mul) \div den
    IN  IF q > (IntMax - t) \div mul
        THEN (IF fptoint = "saturate" THEN IntMax ELSE IntMin)
        ELSE q * mul + t

\* Lines 90-91
HistoClamp(index) == IF index >= histo_len THEN histo_len - 1 ELSE index

\* Line 92: histo[index]. The address is histo + 4 * index in 32 bits, so
\* that INT_MIN lands on histo[0].
HistoCell(index) == index % Pow2(30)

\* Lines 85-93
Histogram(b, sum, w, h, step) ==
    With([pos \in Strided(w, h, step, 0) |->
             HistoCell(HistoClamp(HistoIndex(lum(b[pos]), sum, w, h, step)))],
         LAMBDA cell : [bin \in 0 .. histo_len - 1 |->
                           Cardinality({pos \in DOMAIN cell : cell[pos] = bin})])

HistoIndices(b, sum, w, h, step) ==
    {HistoClamp(HistoIndex(lum(b[pos]), sum, w, h, step)) :
        pos \in Strided(w, h, step, 0)}

\* The bins that hold a pixel.
Filled(histo) == {bin \in DOMAIN histo : histo[bin] > 0}

\* Lines 95-110: the scan from the brightest bin down. drain is drainNum /
\* drainDen; the result tells the bin the scan stopped at, if any, the
\* pixels of the bins it passed and what was left of the budget. A bin with
\* no pixel leaves drain as it is (0 <= drain), so the scan is followed
\* over the other bins, bins being those still ahead.
RECURSIVE Scan(_, _, _, _, _)
Scan(histo, bins, drainNum, drainDen, passed) ==
    IF bins = {} THEN [found |-> FALSE, bin |-> -1, val |-> 0,
                       drainNum |-> drainNum, passed |-> passed]
    ELSE LET i == CHOOSE x \in bins : \A y \in bins : y <= x
         IN  IF histo[i] * drainDen <= drainNum
             THEN Scan(histo, bins \ {i}, drainNum - histo[i] * drainDen,
                       drainDen, passed + histo[i])
             ELSE [found |-> TRUE, bin |-> i, val |-> histo[i],
                   drainNum |-> drainNum, passed |-> passed]

\* Lines 105-107: brightness_k = 1 / thresh_lum, where thresh_lum =
\* histo_pos * avg_lum / histo_shrink_k and histo_pos = (i + 1 - drain / val)
\* / histo_len.
Brightness(stop, drainDen, sum, w, h, step) ==
    Frac(stop.val * drainDen * histo_len * w * h,
         ((stop.bin + 1) * stop.val * drainDen - stop.drainNum)
             * sum * step * step * HistoShrinkDen)

UnestimatedHalved(k) == <<k[1], 2 * k[2]>>

UnestimatedNeutral(k) == <<1, 1>>

\* Line 72, avg_lum > 0 is false: brightness_k is not assigned.
Unestimated(k) == k

\* Lines 53-112. mem is [color_map_contrast, color_map, brightness_k]; the
\* result is the memory after the call and what the call did.
prepare_color_conversion(mem, b, w, h, step, contrast) ==
    With(LumSum(b, Strided(w, h, step, 1)), LAMBDA sum :
    With(IF sum > 0 THEN Histogram(b, sum, w, h, step) ELSE <<>>, LAMBDA histo :
    With(IF sum > 0
         THEN Scan(histo, Filled(histo), w * h, DrainDen * step * step, 0)
         ELSE [found |-> FALSE, bin |-> -1, val |-> 0,
               drainNum |-> w * h, passed |-> 0], LAMBDA stop :
    With(MapStale(mem.color_map_contrast, contrast), LAMBDA stale :
        [color_map_contrast |-> IF stale THEN contrast ELSE mem.color_map_contrast,
         color_map |-> IF stale THEN MapTable(contrast) ELSE mem.color_map,
         brightness_k |-> IF stop.found
                          THEN Brightness(stop, DrainDen * step * step, sum,
                                          w, h, step)
                          ELSE Unestimated(mem.brightness_k),
         recomputed |-> stale,
         sum |-> sum,
         histo |-> histo,
         indices |-> IF sum > 0 THEN HistoIndices(b, sum, w, h, step) ELSE {},
         stop |-> stop]))))

\* Line 48, i >= color_map_len, where i = c * (color_map_len - 1) + 0.5f and
\* c = ch * brightness_k: with m = 2 * num * (color_map_len - 1) it is
\* ch * m + den >= 2 * color_map_len * den.
BeyondMapLate(ch, m, den) == ch >= CeilDiv((4 * ColorMapLen - 1) * den, m)

BeyondMap(ch, m, den) == ch >= CeilDiv((2 * ColorMapLen - 1) * den, m)

\* color_map[idx]; what lies behind the array reads as 0.
ReadMap(cm, idx) == IF idx + 1 \in DOMAIN cm THEN cm[idx + 1] ELSE 0

\* Lines 45-49, for c = ch * k: whether the value was beyond the table, the
\* index read if it was not, and the byte.
map_color(ch, k, cm) ==
    LET m == 2 * k[1] * (ColorMapLen - 1)
        idx == (ch * m + k[2]) \div (2 * k[2])
    IN  IF BeyondMap(ch, m, k[2])
        THEN [ch |-> ch, over |-> TRUE, idx |-> -1, byte |-> 255]
        ELSE [ch |-> ch, over |-> FALSE, idx |-> idx, byte |-> ReadMap(cm, idx)]

\* Lines 124-129
OutPixel(in, k, cm) ==
    [r |-> map_color(in.r, k, cm).byte, g |-> map_color(in.g, k, cm).byte,
     b |-> map_color(in.b, k, cm).byte, a |-> 255]

\* A pixel of the out buffer that no chunk has written.
Unwritten == [r |-> 0, g |-> 0, b |-> 0, a |-> 0]

LinesCountUncut(lineStep, h, lineFrom) == lineStep

\* main.js line 284: Math.min(lineStep, h - lineFrom)
LinesCount(lineStep, h, lineFrom) ==
    IF lineStep <= h - lineFrom THEN lineStep ELSE h - lineFrom

\* main.js lines 282-286: the chunks, as <<from_line, lines_count>>.
RECURSIVE LineChunks(_, _, _)
LineChunks(lineFrom, h, lineStep) ==
    IF lineFrom < h
    THEN <<<<lineFrom, LinesCount(lineStep, h, lineFrom)>>>>
             \o LineChunks(lineFrom + lineStep, h, lineStep)
    ELSE <<>>

\* Line 120: the rows j of convert_colors_for_image_data(w, h, from_line,
\* lines_count), for each chunk that converts row j.
ChunksOfRow(chunks, j) ==
    {n \in 1 .. Len(chunks) : chunks[n][1] <= j /\ j < chunks[n][1] + chunks[n][2]}

\* main.js lines 272-290 with image_data.c lines 53-131: inBuf.set(summBuf),
\* prepare_color_conversion, then convert_colors_for_image_data chunk by
\* chunk. rows counts the conversions of each row, also of rows behind the
\* image.
fillImageData(mem, w, h, summ, contrast, step) ==
    With(prepare_color_conversion(mem, summ, w, h, step, contrast), LAMBDA P :
    With(LineChunks(0, h, CeilDiv(ChunkPixels, w)), LAMBDA chunks :
        [mem |-> [color_map_contrast |-> P.color_map_contrast,
                  color_map |-> P.color_map,
                  brightness_k |-> P.brightness_k],
         prep |-> P,
         chunks |-> chunks,
         rows |-> [j \in 0 .. h + CeilDiv(ChunkPixels, w) |->
                      Cardinality(ChunksOfRow(chunks, j))],
         out |-> [pos \in 0 .. w * h - 1 |->
                     IF ChunksOfRow(chunks, pos \div w) # {}
                     THEN OutPixel(summ[pos], P.brightness_k, P.color_map)
                     ELSE Unwritten],
         lookups |-> {map_color(ch, P.brightness_k, P.color_map) :
                         ch \in UNION {{summ[pos].r, summ[pos].g, summ[pos].b} :
                                          pos \in 0 .. w * h - 1}}]))

\* Lines 42, 44, 50: the globals of a module just instantiated.
FreshMem ==
    [color_map_contrast |-> -1,
     color_map |-> [i \in 1 .. ColorMapLen |-> 0],
     brightness_k |-> <<1, 1>>]

NoFill ==
    [called |-> FALSE, w |-> 0, h |-> 0, step |-> 0, contrast |-> 0,
     summ |-> <<>>, out |-> <<>>, rows |-> <<>>, chunks |-> <<>>,
     recomputed |-> FALSE, hadPrev |-> FALSE, prevContrast |-> 0,
     sum |-> 0, histo |-> <<>>, indices |-> {}, stop |-> <<>>,
     kBefore |-> <<1, 1>>, estimated |-> FALSE, estimatedEarlier |-> FALSE,
     repeated |-> FALSE, repeatOut |-> <<>>, lookups |-> {}]

InitTone ==
    /\ RenderIdle /\ RngIdle /\ MergeIdle /\ PassIdle /\ WorkerIdle /\ AnimIdle
    /\ RedrawIdle /\ ControlIdle /\ DebounceIdle
    /\ color_map_contrast = FreshMem.color_map_contrast
    /\ color_map = FreshMem.color_map
    /\ brightness_k = FreshMem.brightness_k
    /\ fptoint \in {"saturate", "guard"}
    /\ lastFill = NoFill

ToneMem ==
    [color_map_contrast |-> color_map_contrast, color_map |-> color_map,
     brightness_k |-> brightness_k]

\* wasm.fillImageData(w, h, renderCore.summBuf, renderCore.contrast, sync)
FillImageData ==
    /\ \E shape \in ToneShapes, contrast \in Contrasts :
         \E summ \in ToneBufs(shape[1], shape[2]) :
           \E F \in {fillImageData(ToneMem, shape[1], shape[2], summ, contrast,
                                   shape[3])} :
             /\ color_map_contrast' = F.mem.color_map_contrast
             /\ color_map' = F.mem.color_map
             /\ brightness_k' = F.mem.brightness_k
             /\ lastFill' =
                  [called |-> TRUE, w |-> shape[1], h |-> shape[2],
                   step |-> shape[3], contrast |-> contrast, summ |-> summ,
                   out |-> F.out, rows |-> F.rows, chunks |-> F.chunks,
                   recomputed |-> F.prep.recomputed,
                   hadPrev |-> lastFill.called,
                   prevContrast |-> lastFill.contrast,
                   sum |-> F.prep.sum, histo |-> F.prep.histo,
                   indices |-> F.prep.indices, stop |-> F.prep.stop,
                   kBefore |-> brightness_k,
                   estimated |-> F.prep.stop.found,
                   estimatedEarlier |-> lastFill.estimated \/ lastFill.estimatedEarlier,
                   repeated |-> /\ lastFill.called
                                /\ lastFill.w = shape[1] /\ lastFill.h = shape[2]
                                /\ lastFill.step = shape[3]
                                /\ lastFill.contrast = contrast
                                /\ lastFill.summ = summ,
                   repeatOut |-> IF /\ lastFill.called
                                    /\ lastFill.w = shape[1] /\ lastFill.h = shape[2]
                                    /\ lastFill.step = shape[3]
                                    /\ lastFill.contrast = contrast
                                    /\ lastFill.summ = summ
                                 THEN lastFill.out ELSE <<>>,
                   lookups |-> F.lookups]
    /\ UNCHANGED fptoint
    /\ UNCHANGED exceptTone

NextTone == FillImageData

\* ------------------------------------------------- tone mapper: the claims

\* C13 (as stated): the bytes a tone mapping produces are those the same
\* call produces in a module that has tone-mapped nothing before.
C13_OutputOnlyFromInputs ==
    lastFill.called =>
        lastFill.out = fillImageData(FreshMem, lastFill.w, lastFill.h, lastFill.summ,
                                     lastFill.contrast, lastFill.step).out

\* C14: a tone mapping that repeats the call before it, with the same buffer,
\* w, h, stride and contrast, produces the same bytes.
C14_TwiceInARowSameBytes ==
    lastFill.repeated => lastFill.out = lastFill.repeatOut

C14_Witness ==
    /\ lastFill.repeated /\ lastFill.estimated
    /\ \E pos \in DOMAIN lastFill.out :
          lastFill.out[pos].r > 0 /\ lastFill.out[pos].r < 255

\* C15: after fillImageData every row of the image was converted by exactly
\* one chunk, no chunk is empty or reaches behind the last row, the chunks
\* follow one another, and every pixel of the output has alpha 255.
C15_RowsOnceAlphaOpaque ==
    lastFill.called =>
        /\ \A j \in DOMAIN lastFill.rows :
              lastFill.rows[j] = IF j < lastFill.h THEN 1 ELSE 0
        /\ \A n \in 1 .. Len(lastFill.chunks) :
              /\ lastFill.chunks[n][2] >= 1
              /\ lastFill.chunks[n][1] + lastFill.chunks[n][2] <= lastFill.h
              /\ lastFill.chunks[n][1] =
                    IF n = 1 THEN 0
                    ELSE lastFill.chunks[n - 1][1] + lastFill.chunks[n - 1][2]
        /\ \A pos \in DOMAIN lastFill.out : lastFill.out[pos].a = 255

C15_Witness ==
    /\ lastFill.called /\ Len(lastFill.chunks) = 2
    /\ lastFill.chunks[2][2] < lastFill.chunks[1][2]

\* C16 (as stated): after a call with contrast c the table is kept for c and
\* is the table of c, and the call recomputed it exactly if the call before
\* it had another contrast.
C16_TableIsOfContrast ==
    lastFill.called =>
        /\ color_map_contrast = lastFill.contrast
        /\ color_map = MapTable(lastFill.contrast)
        /\ lastFill.hadPrev =>
              (lastFill.recomputed <=> lastFill.prevContrast # lastFill.contrast)

\* The pixels counted in the bins brighter than bin.
RECURSIVE PixelsIn(_, _)
PixelsIn(histo, bins) ==
    IF bins = {} THEN 0
    ELSE LET i == CHOOSE x \in bins : TRUE
         IN  histo[i] + PixelsIn(histo, bins \ {i})

Brighter(histo, bin) == PixelsIn(histo, {x \in Filled(histo) : x > bin})

\* C17 (as stated): with an average luminance above 0 every histogram index
\* is in 0 .. 255, the scan stops at the first bin, from the brightest down,
\* whose count exceeds what is left of the drain budget, the brighter bins
\* hold no more pixels than the budget, and brightness_k is set from that
\* bin to a positive finite value.
C17_ScanStopsAtOneBin ==
    (lastFill.called /\ lastFill.sum > 0) =>
        LET drainDen == DrainDen * lastFill.step * lastFill.step
            budget == lastFill.w * lastFill.h
            stop == lastFill.stop
        IN  /\ lastFill.indices \subseteq 0 .. histo_len - 1
            /\ stop.found /\ stop.bin \in 0 .. histo_len - 1
            /\ stop.passed = Brighter(lastFill.histo, stop.bin)
            /\ stop.passed * drainDen <= budget
            /\ lastFill.histo[stop.bin] * drainDen > budget - stop.passed * drainDen
            /\ \A bin \in stop.bin + 1 .. histo_len - 1 :
                  lastFill.histo[bin] * drainDen
                      <= budget - Brighter(lastFill.histo, bin) * drainDen
            /\ brightness_k = Brightness(stop, drainDen, lastFill.sum, lastFill.w,
                                         lastFill.h, lastFill.step)
            /\ brightness_k[1] > 0 /\ brightness_k[2] > 0

\* C18: with an average luminance of exactly 0 no histogram is built and
\* brightness_k is what it was, which is 1 if no call before estimated it;
\* an all-black buffer has an average luminance of 0.
C18_ZeroAverageKeepsBrightness ==
    lastFill.called =>
        /\ lastFill.sum = 0 =>
              /\ lastFill.histo = <<>> /\ ~lastFill.estimated
              /\ brightness_k = lastFill.kBefore
              /\ ~lastFill.estimatedEarlier => brightness_k = <<1, 1>>
        /\ (\A pos \in DOMAIN lastFill.summ : lastFill.summ[pos] = InPixelBlack)
              => lastFill.sum = 0

C18_Witness ==
    /\ lastFill.called /\ lastFill.sum = 0 /\ lastFill.estimatedEarlier
    /\ brightness_k # <<1, 1>>
    /\ \A pos \in DOMAIN lastFill.summ : lastFill.summ[pos] = InPixelBlack

\* C19: no channel value makes map_color read color_map outside 0 ..
\* color_map_len - 1: a value beyond the table gives 255 and any other value
\* gives the entry at an index inside the table.
C19_MapIndexInRange ==
    lastFill.called =>
        \A lk \in lastFill.lookups :
            IF lk.over THEN lk.byte = 255
            ELSE /\ lk.idx \in 0 .. ColorMapLen - 1
                 /\ lk.byte = color_map[lk.idx + 1]

C19_Witness ==
    /\ lastFill.called
    /\ \E lk \in lastFill.lookups : lk.over /\ lk.ch > 0
    /\ \E lk \in lastFill.lookups : ~lk.over /\ lk.idx = ColorMapLen - 1

\* ------------------------------------------- worker.js: the wasm instance

\* Sizes are counted in 4-byte words, so that every 32-bit size fits TLC's
\* integers: a page of 64 KiB, the 2^32 bytes at which unsigned int wraps, and
\* __heap_base, which a build with stack-size=1024 places a little above
\* 1 KiB.
PageWords == 64 * 256
WrapWords == 1024 * 1024 * 1024
HeapBase == 75 * 4

\* sizeof(struct Pixel) and sizeof(struct Point) on wasm32, in words
PixelWords == 3
PointWords == 4

\* Samples a worker's buffer accumulates in a behaviour.
MaxWorkerSamples == 2

\* The canvas sizes and the iteration depths of the requests: the depth is
\* parseInt of the form field, any integer.
CanvasShapes == {<<4, 2>>, <<1024, 1024>>}
RequestIters == {1, 250, 134217728}

\* The names for which render.c exports a PM_ resp. CM_ constant, and the
\* names the requests carry.
ExportedPointsModes == {"inner", "outer"}
ExportedColorModes == {"white_black", "hue_atan_red", "hue_atan_blue",
                       "hue_atan_green", "hue_atan_asymm", "hue_iters"}
RequestPointsModes == {"outer", "both"}
RequestColorModes == {"hue_iters", "rgb_layers"}

\* The SubRenderer.id the worker's resets carry as seed.
WorkerSeed == 1

\* (unsigned int)&__heap_base + (w * h) * sizeof(struct Pixel)
\*     + sizeof(struct Point) * iters, in unsigned 32-bit arithmetic
get_required_memory_size(n, w, h) ==
    (HeapBase + (((w * h) * PixelWords) % WrapWords)
              + ((PointWords * n) % WrapWords)) % WrapWords

\* The i32 result of a wasm export as the JavaScript number: read signed.
ToInt32(words) == IF 2 * words >= WrapWords THEN words - WrapWords ELSE words

\* buf = &__heap_base; points = &__heap_base + (w * h) * sizeof(struct Pixel)
BufBase == HeapBase
PointsBase(w, h) == HeapBase + (w * h) * PixelWords

\* ensureMemSize(w, h, iters) on a memory of `pages`: the pages after it, and
\* whether WA_memory.grow threw (the engine may refuse any growth).
ensureMemSize(pages, w, h, n, growOk) ==
    LET delta == ToInt32(get_required_memory_size(n, w, h)) - pages * PageWords
        deltaPages == CeilDiv(delta, PageWords)
    IN  IF deltaPages > 0
        THEN (IF growOk THEN [pages |-> pages + deltaPages, threw |-> FALSE]
              ELSE [pages |-> pages, threw |-> TRUE])
        ELSE [pages |-> pages, threw |-> FALSE]

\* The instance before any request: the colour buffer holds n samples, the
\* generator was seeded with `seed` (-1: never) and has made `draws` draws,
\* transformMatrix is the initialiser of render.c.
FreshInstance ==
    [n |-> 0, seed |-> -1, draws |-> 0, mtx |-> <<0, 1, 0, 0, 1, 0, 0, 0>>]

\* wasm.reset(w, h, seed): ensureMemSize(w, h, 0), WA_clear_color_buf, WA_srand
WorkerReset(I, req) ==
    LET e == ensureMemSize(I.pages, req.w, req.h, 0, req.growOk)
    IN  IF e.threw THEN [I EXCEPT !.outcome = "threw"]
        ELSE [I EXCEPT !.pages = e.pages,
                       !.st.n = 0, !.st.seed = req.reset, !.st.draws = 0]

\* WA_render: a store beyond the memory traps, the first one being
\* points[iters - 1] of the first sample, after its two draws.
WorkerWasmRender(I, req) ==
    IF I.pages * PageWords < PointsBase(req.w, req.h) + PointWords * req.iters
    THEN [I EXCEPT !.st.draws = @ + 2, !.outcome = "trapped"]
    ELSE [I EXCEPT !.st.n = @ + req.samples, !.st.draws = @ + 2 * req.samples,
                   !.outcome = "rendered"]

\* wasm.render(w, h, ...args): ensureMemSize, mtx.set(newMtx), the two
\* getConstVal (getExportedNumber throws "is not exported"), WA_render.
WorkerWasmRenderCall(I, req) ==
    LET e == ensureMemSize(I.pages, req.w, req.h, req.iters, req.growOk)
        I1 == [I EXCEPT !.pages = e.pages, !.ensured = TRUE,
                        !.st.mtx = req.newMtx]
    IN  IF e.threw THEN [I EXCEPT !.outcome = "threw"]
        ELSE IF req.pointsMode \notin ExportedPointsModes
                 \/ req.colorMode \notin ExportedColorModes
        THEN [I1 EXCEPT !.outcome = "threw"]
        ELSE WorkerWasmRender(I1, req)

\* self.onmessage, cmd 'render': if (reset) wasm.reset(...); wasm.render(...)
OnRenderMessage(st, pages, req) ==
    LET I0 == [st |-> st, pages |-> pages, outcome |-> "none", ensured |-> FALSE]
        I1 == IF req.reset # -1 THEN WorkerReset(I0, req) ELSE I0
    IN  IF I1.outcome = "threw" THEN I1 ELSE WorkerWasmRenderCall(I1, req)

NoRequest ==
    [handled |-> FALSE, w |-> 0, h |-> 0, iters |-> 0, reset |-> -1,
     knownNames |-> TRUE, outcome |-> "none", ensured |-> FALSE,
     before |-> FreshInstance]

InitWorker ==
    /\ RenderIdle /\ RngIdle /\ MergeIdle /\ PassIdle /\ ToneIdle /\ AnimIdle
    /\ RedrawIdle /\ ControlIdle /\ DebounceIdle
    /\ WA_memory \in {1, 2}
    /\ wasmState = FreshInstance
    /\ lastRequest = NoRequest

\* The worker handles a 'render' request.
RenderRequestHandled ==
    \E shape \in CanvasShapes, n \in RequestIters, samples \in 1 .. MaxWorkerSamples,
       seed \in {-1, WorkerSeed}, growOk \in BOOLEAN, newMtx \in Matrices,
       pm \in RequestPointsModes, cm \in RequestColorModes :
        \E req \in {[w |-> shape[1], h |-> shape[2], iters |-> n,
                      samples |-> samples, reset |-> seed, growOk |-> growOk,
                      newMtx |-> newMtx, pointsMode |-> pm, colorMode |-> cm]} :
            \E I \in {OnRenderMessage(wasmState, WA_memory, req)} :
                /\ I.st.n <= MaxWorkerSamples
                /\ I.st.draws <= 2 * MaxWorkerSamples
                /\ WA_memory' = I.pages
                /\ wasmState' = I.st
                /\ lastRequest' =
                      [handled |-> TRUE, w |-> req.w, h |-> req.h,
                       iters |-> req.iters, reset |-> req.reset,
                       knownNames |-> /\ pm \in ExportedPointsModes
                                      /\ cm \in ExportedColorModes,
                       outcome |-> I.outcome, ensured |-> I.ensured,
                       before |-> wasmState]
                /\ UNCHANGED exceptWorker

NextWorker == RenderRequestHandled

\* C22: a 'render' request with a points-mode or colour-mode name that is
\* not exported throws and leaves the colour buffer, the generator and the
\* transform matrix as they were, also if it carries a reset.
C22_UnknownNameWritesNothing ==
    (lastRequest.handled /\ ~lastRequest.knownNames)
        => (lastRequest.outcome = "threw" /\ wasmState = lastRequest.before)

\* C24: get_required_memory_size(iters, w, h) is __heap_base + w * h *
\* sizeof(Pixel) + iters * sizeof(Point); once ensureMemSize(w, h, iters) has
\* returned the memory is at least that large, so it holds every pixel and
\* every trajectory slot of the render() that follows, and the trajectory
\* array begins where the pixels end.
C24_MemoryHoldsBothRegions ==
    (lastRequest.handled /\ lastRequest.ensured) =>
        LET w == lastRequest.w
            h == lastRequest.h
            n == lastRequest.iters
        IN  /\ get_required_memory_size(n, w, h)
                   = HeapBase + w * h * PixelWords + n * PointWords
            /\ WA_memory * PageWords >= HeapBase + w * h * PixelWords + n * PointWords
            /\ PointsBase(w, h) >= BufBase + w * h * PixelWords

\* ------------------------------------------------- main.js: RenderCore

\* The cores of the machine.  avgRenderDiff is new Avg(45) and the count is
\* adjusted once it hasAtLeast(10); the model's window holds AvgCapacity
\* ratios and the adjustment asks for AvgAtLeast of them.  A behaviour adds
\* at most MaxSinceChange ratios without a change of the count.
MaxCores == 4
AvgCapacity == 3
AvgAtLeast == 2
MaxSinceChange == 4

\* value > 1.6, value > 1.75 and value < 1.35, in thousandths
ReduceAbove == 1600
ReduceMoreAbove == 1750
IncreaseBelow == 1350

\* x.lastRenderDuration in ms: 0 before the sub-renderer's first render.
Durations == {0, 100, 170, 200}

\* Array(navigator.hardwareConcurrency).fill(0).map((_, i) => new SubRenderer(i))
CoreSubRederers(n) == [i \in 1 .. n |-> i - 1]

\* times[times.length - 1] / times[0] of the sorted durations, in
\* thousandths; x / 0 is Infinity and 0 / 0 is NaN.
Ratio(lo, hi) ==
    IF lo = 0
    THEN [kind |-> IF hi = 0 THEN "NaN" ELSE "Infinity", v |-> 0]
    ELSE [kind |-> "number", v |-> (hi * 1000) \div lo]

\* Avg.add(value): appended, or shifted in at the end of a full window.
AvgAdd(values, value) ==
    IF Len(values) < AvgCapacity THEN Append(values, value)
    ELSE Append(Tail(values), value)

RECURSIVE AvgSum(_)
AvgSum(values) ==
    IF values = <<>> THEN 0 ELSE Head(values).v + AvgSum(Tail(values))

\* Avg.value() > t and Avg.value() < t: a NaN among the values makes both
\* false, else an Infinity makes the sum Infinity.
AvgAbove(values, t) ==
    /\ \A i \in 1 .. Len(values) : values[i].kind # "NaN"
    /\ \/ \E i \in 1 .. Len(values) : values[i].kind = "Infinity"
       \/ AvgSum(values) > t * Len(values)

AvgBelow(values, t) ==
    /\ \A i \in 1 .. Len(values) : values[i].kind = "number"
    /\ AvgSum(values) < t * Len(values)

\* Mutant: the count is reduced down to one sub-renderer.
ReduceBlockedAtOne(len, n) == len - 1 < 1

\* if (this.animationSubRederers.length - 1 < this.allSubRederers.length / 2) return
ReduceBlocked(len, n) == 2 * (len - 1) < n

\* _tryReduceAnimSubRenderers(): pop() and avgRenderDiff.clear()
tryReduceAnimSubRenderers(st, n) ==
    IF ReduceBlocked(Len(st.subs), n) THEN st
    ELSE [subs |-> SubSeq(st.subs, 1, Len(st.subs) - 1), values |-> <<>>]

\* _tryIncreaseAnimSubRenderers(): push(allSubRederers[length]) and clear()
tryIncreaseAnimSubRenderers(st, n) ==
    IF Len(st.subs) = n THEN st
    ELSE [subs |-> Append(st.subs, CoreSubRederers(n)[Len(st.subs) + 1]),
          values |-> <<>>]

\* adjustAnimSubRenderersCount() with the sorted durations running from lo
\* to hi; `value` is taken once, before the window is cleared.
adjustAnimSubRenderersCount(st, n, lo, hi) ==
    LET added == [st EXCEPT !.values = AvgAdd(@, Ratio(lo, hi))]
        value == added.values
        st1 == IF AvgAbove(value, ReduceAbove)
               THEN tryReduceAnimSubRenderers(added, n) ELSE added
        st2 == IF AvgAbove(value, ReduceMoreAbove)
               THEN tryReduceAnimSubRenderers(st1, n) ELSE st1
        st3 == IF AvgBelow(value, IncreaseBelow)
               THEN tryIncreaseAnimSubRenderers(st2, n) ELSE st2
    IN  IF Len(value) >= AvgAtLeast THEN st3 ELSE added

InitAnim ==
    /\ RenderIdle /\ RngIdle /\ MergeIdle /\ PassIdle /\ ToneIdle /\ WorkerIdle
    /\ RedrawIdle /\ ControlIdle /\ DebounceIdle
    /\ hardwareConcurrency \in 1 .. MaxCores
    /\ animSubRederers = CoreSubRederers(hardwareConcurrency)
    /\ avgRenderDiff = <<>>
    /\ sinceChange = 0

\* runRendering line 203: the count is adjusted after a pass in which each
\* animation sub-renderer's task was rendered; the durations are whatever the
\* sub-renderers measured last.
AdjustAnimSubRenderersCount ==
    /\ sinceChange < MaxSinceChange
    /\ \E lo, hi \in Durations :
          /\ lo <= hi
          /\ Len(animSubRederers) = 1 => lo = hi
          /\ \E st \in {adjustAnimSubRenderersCount(
                            [subs |-> animSubRederers, values |-> avgRenderDiff],
                            hardwareConcurrency, lo, hi)} :
                /\ animSubRederers' = st.subs
                /\ avgRenderDiff' = st.values
                /\ sinceChange' = IF st.subs = animSubRederers
                                  THEN sinceChange + 1 ELSE 0
    /\ UNCHANGED hardwareConcurrency
    /\ UNCHANGED exceptAnim

NextAnim == AdjustAnimSubRenderersCount

\* C29: animationSubRederers is always a prefix of allSubRederers of a length
\* L with N/2 <= L <= N, so at least one sub-renderer; one call of
\* adjustAnimSubRenderersCount lowers L by at most 2 or raises it by at most 1,
\* and changes it only if, with the ratio the call adds, as many ratios as
\* the adjustment asks for were added since the last change.
C29_AnimSubRenderersBounded ==
    /\ [](/\ animSubRederers = SubSeq(CoreSubRederers(hardwareConcurrency), 1,
                                      Len(animSubRederers))
          /\ hardwareConcurrency <= 2 * Len(animSubRederers)
          /\ Len(animSubRederers) <= hardwareConcurrency
          /\ Len(animSubRederers) >= 1)
    /\ [][/\ Len(animSubRederers') >= Len(animSubRederers) - 2
          /\ Len(animSubRederers') <= Len(animSubRederers) + 1
          /\ Len(animSubRederers') # Len(animSubRederers)
                => sinceChange + 1 >= AvgAtLeast]_vars

\* The count stands at its floor below N, and the window again holds enough
\* ratios whose average asks for a reduction.
C29_Witness ==
    /\ Len(animSubRederers) < hardwareConcurrency
    /\ ReduceBlocked(Len(animSubRederers), hardwareConcurrency)
    /\ Len(avgRenderDiff) >= AvgAtLeast
    /\ AvgAbove(avgRenderDiff, ReduceMoreAbove)

\* ------------------------------------------ requestRedraw() and redraw()
\*
\* main.js (part_005 lines 371-416): the chain of redraws. A step is one task
\* of the page's event loop with the microtasks that follow it: a handler that
\* changes the user's state and calls requestRedraw(), or the task in which a
\* running pass returns. redraw() reads rotation, zoom and options when it
\* starts; userState counts the changes, so a pass that read n saw the state
\* left by the n-th call. A pass that starts with its signal set returns in
\* the same microtasks (runRendering breaks out of its loop before the first
\* dispatch and awaits Promise.all of nothing).

MaxRedrawCalls == 5

\* One handler calls requestRedraw() once (move, scale, a changed option, an
\* animation frame) or twice (doubleMove: move() and scale()).
CallsPerTask == {1, 2}

\* Mutant: a call is dropped as soon as one redraw is counted.
DroppedAtOne(requested) == requested >= 1

\* Line 375: if (redrawRequested >= 2) return
Dropped(requested) == requested >= 2

\* Mutant: the new redraw is chained on a settled promise.
ChainedOnNothing(promise) == 0

\* Line 379: redrawPromise = redrawPromise.catch(...).then(...): the redraw
\* starts when the promise of the one before (0: Promise.resolve()) settles.
ChainedOn(promise) == promise

RedrawState ==
    [redrawRequested |-> redrawRequested, redrawAbort |-> redrawAbort,
     redrawPromise |-> redrawPromise, abortedSignals |-> abortedSignals,
     redraws |-> redraws, userState |-> userState]

\* The handler's change of rotation, zoom or options, then requestRedraw(),
\* lines 374-385. Controllers are numbered by the redraw they were made for
\* (0: the one made at line 372).
requestRedraw(S) ==
    LET S1 == [S EXCEPT !.userState = @ + 1]
        id == Len(S.redraws) + 1
    IN  IF Dropped(S1.redrawRequested) THEN S1
        ELSE [S1 EXCEPT !.abortedSignals = @ \cup {S.redrawAbort},
                        !.redrawAbort = id,
                        !.redrawRequested = @ + 1,
                        !.redrawPromise = id,
                        !.redraws = Append(@, [after |-> ChainedOn(S.redrawPromise),
                                               at |-> S1.userState,
                                               phase |-> "queued",
                                               read |-> 0,
                                               aborted |-> FALSE])]

RECURSIVE RequestRedrawTimes(_, _)
RequestRedrawTimes(n, S) ==
    IF n = 0 THEN S ELSE RequestRedrawTimes(n - 1, requestRedraw(S))

\* Lines 382-384 after redraw() has returned: the pass is over, with its
\* signal set or not, and .finally counts it off.
Settle(S, i) ==
    [S EXCEPT !.redraws[i].phase = "returned",
              !.redraws[i].aborted = i \in S.abortedSignals,
              !.redrawRequested = @ - 1]

\* The queued redraws whose .then() callback is due.
Due(S) ==
    {i \in 1 .. Len(S.redraws) :
        /\ S.redraws[i].phase = "queued"
        /\ \/ S.redraws[i].after = 0
           \/ S.redraws[S.redraws[i].after].phase = "returned"}

\* The microtasks: line 381 calls redraw(newAbort.signal), which reads the
\* user's state (lines 390-414) and calls runRendering.
RECURSIVE Microtasks(_)
Microtasks(S) ==
    IF Due(S) = {} THEN S
    ELSE LET i == CHOOSE d \in Due(S) : \A e \in Due(S) : d <= e
             started == [S EXCEPT !.redraws[i].phase = "running",
                                  !.redraws[i].read = S.userState]
         IN  IF i \in S.abortedSignals
             THEN Microtasks(Settle(started, i))
             ELSE Microtasks(started)

InitRedraw ==
    /\ RenderIdle /\ RngIdle /\ MergeIdle /\ PassIdle /\ ToneIdle /\ WorkerIdle /\ AnimIdle
    /\ ControlIdle /\ DebounceIdle
    /\ redrawRequested = 0
    /\ redrawAbort = 0
    /\ redrawPromise = 0
    /\ abortedSignals = {}
    /\ redraws = <<>>
    /\ userState = 0

RedrawBecomes(S) ==
    /\ redrawRequested' = S.redrawRequested
    /\ redrawAbort' = S.redrawAbort
    /\ redrawPromise' = S.redrawPromise
    /\ abortedSignals' = S.abortedSignals
    /\ redraws' = S.redraws
    /\ userState' = S.userState

\* A handler changes the user's state and calls requestRedraw() n times.
RequestRedraws(n) ==
    /\ userState + n <= MaxRedrawCalls
    /\ \E S \in {Microtasks(RequestRedrawTimes(n, RedrawState))} : RedrawBecomes(S)
    /\ UNCHANGED exceptRedraw

\* The running pass returns from runRendering, aborted or complete.
PassReturns ==
    /\ \E i \in 1 .. Len(redraws) :
          /\ redraws[i].phase = "running"
          /\ \E S \in {Microtasks(Settle(RedrawState, i))} : RedrawBecomes(S)
    /\ UNCHANGED exceptRedraw

NextRequests ==
    \/ \E n \in CallsPerTask : RequestRedraws(n)
    \/ PassReturns

RunningRedraws == {i \in 1 .. Len(redraws) : redraws[i].phase = "running"}
QueuedRedraws == {i \in 1 .. Len(redraws) : redraws[i].phase = "queued"}

\* C32: redrawRequested stays in {0, 1, 2}; at most one pass is executing and
\* at most one more is queued; no two passes execute at the same time.
C32_OneRunningOneQueued ==
    /\ redrawRequested \in {0, 1, 2}
    /\ Cardinality(RunningRedraws) <= 1
    /\ Cardinality(QueuedRedraws) <= 1
    /\ redrawRequested = Cardinality(RunningRedraws) + Cardinality(QueuedRedraws)

\* A pass is running, one is queued and a further call was dropped.
C32_Witness ==
    /\ redrawRequested = 2
    /\ RunningRedraws # {} /\ QueuedRedraws # {}
    /\ userState > redraws[Len(redraws)].at

\* A pass that read the user's state after the n-th call has run to its end
\* with its signal never set.
RenderedFrom(n) ==
    \E i \in 1 .. Len(redraws) :
        /\ redraws[i].phase = "returned"
        /\ redraws[i].read = n
        /\ ~redraws[i].aborted

Interval == 2
MaxBurst == 2
MaxFirings == 2

\* part_002 line 119: (prevArgs, args) => [(!!prevArgs && prevArgs[0]) || args[0]]
MergeArgs(prevArgs, args) ==
    <<(prevArgs # <<>> /\ prevArgs[1]) \/ args[1]>>

InitDebounce ==
    /\ RenderIdle /\ RngIdle /\ MergeIdle /\ PassIdle /\ ToneIdle /\ WorkerIdle /\ AnimIdle
    /\ RedrawIdle /\ ControlIdle
    /\ timeout = FALSE
    /\ elapsed = 0
    /\ mergedArgs = <<>>
    /\ sinceFired = <<>>
    /\ fired = <<>>

\* updateURL(usePush): the function debounce returned, lines 210-217.
UpdateURL(usePush) ==
    /\ Len(sinceFired) < MaxBurst
    /\ Len(fired) < MaxFirings
    /\ mergedArgs' = MergeArgs(mergedArgs, <<usePush>>)
    /\ timeout' = TRUE
    /\ elapsed' = 0
    /\ sinceFired' = Append(sinceFired, usePush)
    /\ UNCHANGED fired
    /\ UNCHANGED exceptDebounce

TimePasses ==
    /\ timeout
    /\ elapsed < Interval
    /\ elapsed' = elapsed + 1
    /\ UNCHANGED <<timeout, mergedArgs, sinceFired, fired>>
    /\ UNCHANGED exceptDebounce

\* The timer's callback, lines 213-216: timeout = null; func(...mergedArgs).
\* func calls history.pushState if usePush and replaceState if not.
TimerFires ==
    /\ timeout
    /\ elapsed = Interval
    /\ timeout' = FALSE
    /\ fired' = Append(fired, [usePush |-> mergedArgs[1], calls |-> sinceFired,
                               waited |-> elapsed])
    /\ sinceFired' = <<>>
    /\ UNCHANGED <<elapsed, mergedArgs>>
    /\ UNCHANGED exceptDebounce

NextDebounce ==
    \/ \E usePush \in BOOLEAN : UpdateURL(usePush)
    \/ TimePasses
    \/ TimerFires

\* C40: every firing comes an interval after the last call, once for the calls
\* since the firing before, and its argument is merged from those calls only:
\* pushState is used if and only if one of them asked for a push.
C40_FiresOnCallsSinceLastFiring ==
    \A k \in 1 .. Len(fired) :
        /\ fired[k].waited = Interval
        /\ fired[k].calls # <<>>
        /\ fired[k].usePush = (\E j \in 1 .. Len(fired[k].calls) : fired[k].calls[j])

\* --------------------------------------------------------- controlDouble()
\*
\* control.js (part_003 lines 22-251). A step is one event of the page: the
\* fingers and the pointer do what they do whether a handler is registered or
\* not, and the handlers registered for the event run. A touch that starts on
\* startElem (the canvas) has it as its target, so touchstart reaches the
\* handler; touchmove, touchend and touchcancel are heard on moveElem (window,
\* capturing) for every touch of the page. e.touches holds every touch on the
\* screen, e.changedTouches those the event is about.

MaxFingers == 3

\* Touch.identifier: unique among the touches on the screen, reused or not
\* after a release, by the browser.
TouchIdentifiers == 0 .. MaxFingers - 1

\* Lines 195-198: events, by the handler's name.
Events ==
    {"mousedown", "mousemove", "mouseup", "mousemoveHover", "mouseleave",
     "touchstart", "touchmove", "touchend", "touchcancel"}

\* Line 199: autoOnEvents.
AutoOnEvents == {"mousedown", "touchstart", "mousemoveHover", "mouseleave", "wheel"}

\* touchMoveEvt, touchEndEvt, touchCancelEvt: lines 82-84 and 150-152.
TouchTracking == {"touchmove", "touchend", "touchcancel"}

Callback(f, ids, isSwitching) == [f |-> f, ids |-> ids, isSwitching |-> isSwitching]

\* What a handler leaves: touchIds, the registered listeners, the callbacks it
\* invoked in order, and whether it threw.
Handled(ids, ls, calls) == [touchIds |-> ids, listeners |-> ls, calls |-> calls, threw |-> FALSE]

\* mustFindTouch, lines 237-241, did not find the touch.
Thrown(ids, ls) == [touchIds |-> ids, listeners |-> ls, calls |-> <<>>, threw |-> TRUE]

\* Lines 49-55.
mousedown(ids, ls, button) ==
    IF button # 0 THEN Handled(ids, ls, <<>>)
    ELSE Handled(ids, (ls \cup {"mousemove", "mouseup"}) \ {"mousemoveHover"},
                 <<Callback("singleDown", <<"mouse">>, FALSE)>>)

\* Lines 61-67.
mouseup(ids, ls, button) ==
    IF button # 0 THEN Handled(ids, ls, <<>>)
    ELSE Handled(ids, (ls \ {"mousemove", "mouseup"}) \cup {"mousemoveHover"},
                 <<Callback("singleUp", <<"mouse">>, FALSE)>>)

\* Lines 77-114. changed is e.changedTouches, touches the identifiers of
\* e.touches.
touchstart(ids, ls, touches, changed) ==
    IF Len(ids) = 2 THEN Handled(ids, ls, <<>>)
    ELSE IF Len(ids) = 0
    THEN IF Len(changed) = 1
         THEN Handled(<<changed[1]>>, ls \cup TouchTracking,
                      <<Callback("singleDown", <<changed[1]>>, FALSE)>>)
         ELSE Handled(<<changed[1], changed[2]>>, ls \cup TouchTracking,
                      <<Callback("doubleDown", <<changed[1], changed[2]>>, FALSE)>>)
    ELSE IF ids[1] \notin touches THEN Thrown(ids, ls)
    ELSE Handled(<<ids[1], changed[1]>>, ls,
                 <<Callback("singleUp", <<ids[1]>>, TRUE),
                   Callback("doubleDown", <<ids[1], changed[1]>>, TRUE)>>)

\* Lines 116-132.
touchmove(ids, ls, touches, changed) ==
    IF Len(ids) = 1
    THEN IF ids[1] \notin Elements(changed) THEN Thrown(ids, ls)
         ELSE Handled(ids, ls, <<Callback("singleMove", ids, FALSE)>>)
    ELSE IF Len(ids) = 2
    THEN IF ids[1] \notin touches \/ ids[2] \notin touches THEN Thrown(ids, ls)
         ELSE Handled(ids, ls, <<Callback("doubleMove", ids, FALSE)>>)
    ELSE Handled(ids, ls, <<>>)

\* Lines 139-147: releasedTouches, from the last of touchIds to the first.
RECURSIVE ReleasedTouches(_, _)
ReleasedTouches(ids, changed) ==
    IF ids = <<>> THEN <<>>
    ELSE (IF ids[Len(ids)] \in Elements(changed) THEN <<ids[Len(ids)]>> ELSE <<>>)
         \o ReleasedTouches(SubSeq(ids, 1, Len(ids) - 1), changed)

\* Mutant: the listeners go as soon as one tracked touch is released.
SomeReleased(count, released) == released > 0

\* Line 149: if (count === releasedTouches.length)
AllReleased(count, released) == count = released

\* Lines 135-169; touchcancel (lines 171-173) calls it.
touchend(ids, ls, touches, changed) ==
    LET count == Len(ids)
        released == ReleasedTouches(ids, changed)
        left == SelectSeq(ids, LAMBDA id : id \notin Elements(changed))
        ls1 == IF AllReleased(count, Len(released)) THEN ls \ TouchTracking ELSE ls
    IN  IF count = 1 /\ Len(released) = 1
        THEN Handled(left, ls1, <<Callback("singleUp", <<released[1]>>, FALSE)>>)
        ELSE IF count = 2 /\ Len(released) = 2
        THEN Handled(left, ls1, <<Callback("doubleUp", released, FALSE)>>)
        ELSE IF count = 2 /\ Len(released) = 1
        THEN IF left[1] \notin touches THEN Thrown(left, ls1)
             ELSE Handled(left, ls1,
                          <<Callback("doubleUp", <<left[1], released[1]>>, TRUE),
                            Callback("singleDown", <<left[1]>>, TRUE)>>)
        ELSE Handled(left, ls1, <<>>)

\* Lines 203-209.
toggle(on, ls) ==
    IF isOn = on THEN ls
    ELSE IF on THEN ls \cup AutoOnEvents
    ELSE ls \ Events

\* The gesture that is open after a callback: a Down opens one, an Up closes it.
OpenAfter(open, call) ==
    IF call.f \in {"singleDown"} THEN "single"
    ELSE IF call.f = "doubleDown" THEN "double"
    ELSE IF call.f \in {"singleUp", "doubleUp"} THEN "none"
    ELSE open

\* A Down comes with no gesture open, an Up closes the gesture of its kind.
Bracketed(open, call) ==
    CASE call.f \in {"singleDown", "doubleDown"} -> open = "none"
      [] call.f = "singleUp" -> open = "single"
      [] call.f = "doubleUp" -> open = "double"
      [] OTHER -> TRUE

RECURSIVE OpenAfterAll(_, _)
OpenAfterAll(open, calls) ==
    IF calls = <<>> THEN open
    ELSE OpenAfterAll(OpenAfter(open, Head(calls)), Tail(calls))

RECURSIVE AllBracketed(_, _)
AllBracketed(open, calls) ==
    IF calls = <<>> THEN TRUE
    ELSE /\ Bracketed(open, Head(calls))
         /\ AllBracketed(OpenAfter(open, Head(calls)), Tail(calls))

NoEvent ==
    [type |-> "none", wasOn |-> TRUE, count |-> 0, fresh |-> FALSE, calls |-> <<>>,
     threw |-> FALSE, open |-> "none", bracketed |-> TRUE]

\* controlDouble has returned: line 211 has called toggle(true).
InitControl ==
    /\ RenderIdle /\ RngIdle /\ MergeIdle /\ PassIdle /\ ToneIdle /\ WorkerIdle /\ AnimIdle
    /\ RedrawIdle /\ DebounceIdle
    /\ isOn = TRUE
    /\ listeners = AutoOnEvents
    /\ touchIds = <<>>
    /\ fingers = {}
    /\ lastEvent = NoEvent

\* The event of the given type has been dispatched; r is what its handlers
\* left (touchIds and listeners as they were if none is registered).
Dispatched(type, fresh, r) ==
    /\ touchIds' = r.touchIds
    /\ listeners' = r.listeners
    /\ lastEvent' = [type |-> type, wasOn |-> isOn, count |-> Len(touchIds),
                     fresh |-> fresh, calls |-> r.calls, threw |-> r.threw,
                     open |-> OpenAfterAll(lastEvent.open, r.calls),
                     bracketed |-> /\ lastEvent.bracketed
                                   /\ AllBracketed(lastEvent.open, r.calls)]
    /\ UNCHANGED isOn
    /\ UNCHANGED exceptControl

Unheard == Handled(touchIds, listeners, <<>>)

\* One or two fingers come down, on the canvas or elsewhere on the page.
TouchStart ==
    \E new \in SUBSET (TouchIdentifiers \ fingers), onStart \in BOOLEAN :
        /\ Cardinality(new) \in {1, 2}
        /\ \E changed \in Arrangements(new) :
              /\ fingers' = fingers \cup new
              /\ Dispatched("touchstart", onStart /\ fingers = {},
                            IF onStart /\ "touchstart" \in listeners
                            THEN touchstart(touchIds, listeners, fingers \cup new, changed)
                            ELSE Unheard)

\* Some of the fingers of one target move.
TouchMove ==
    \E moved \in SUBSET fingers :
        /\ moved # {}
        /\ \E changed \in Arrangements(moved) :
              /\ UNCHANGED fingers
              /\ Dispatched("touchmove", FALSE,
                            IF "touchmove" \in listeners
                            THEN touchmove(touchIds, listeners, fingers, changed)
                            ELSE Unheard)

\* Some of the fingers of one target are lifted, or the browser cancels them.
TouchEnd ==
    \E gone \in SUBSET fingers, type \in {"touchend", "touchcancel"} :
        /\ gone # {}
        /\ \E changed \in Arrangements(gone) :
              /\ fingers' = fingers \ gone
              /\ Dispatched(type, FALSE,
                            IF type \in listeners
                            THEN touchend(touchIds, listeners, fingers \ gone, changed)
                            ELSE Unheard)

MouseDown ==
    \E button \in {0, 1} :
        /\ UNCHANGED fingers
        /\ Dispatched("mousedown", button = 0,
                      IF "mousedown" \in listeners
                      THEN mousedown(touchIds, listeners, button)
                      ELSE Unheard)

\* The pointer moves over the canvas: the capturing handler of window runs
\* first (lines 57-59), then the canvas's (lines 69-71).
MouseMove ==
    /\ UNCHANGED fingers
    /\ Dispatched("mousemove", FALSE,
                  Handled(touchIds, listeners,
                          (IF "mousemove" \in listeners
                           THEN <<Callback("singleMove", <<"mouse">>, FALSE)>> ELSE <<>>)
                          \o (IF "mousemoveHover" \in listeners
                              THEN <<Callback("singleHover", <<>>, FALSE)>> ELSE <<>>)))

MouseUp ==
    \E button \in {0, 1} :
        /\ UNCHANGED fingers
        /\ Dispatched("mouseup", FALSE,
                      IF "mouseup" \in listeners
                      THEN mouseup(touchIds, listeners, button)
                      ELSE Unheard)

\* Lines 73-75.
MouseLeave ==
    /\ UNCHANGED fingers
    /\ Dispatched("mouseleave", FALSE,
                  Handled(touchIds, listeners,
                          IF "mouseleave" \in listeners
                          THEN <<Callback("singleLeave", <<>>, FALSE)>> ELSE <<>>))

\* Lines 179-182.
Wheel ==
    /\ UNCHANGED fingers
    /\ Dispatched("wheel", FALSE,
                  Handled(touchIds, listeners,
                          IF "wheel" \in listeners
                          THEN <<Callback("wheelRot", <<>>, FALSE)>> ELSE <<>>))

\* on() and off(), lines 214-219.
Toggle ==
    \E on \in BOOLEAN :
        /\ listeners' = toggle(on, listeners)
        /\ isOn' = on
        /\ lastEvent' = [lastEvent EXCEPT !.type = "toggle", !.wasOn = isOn,
                                          !.fresh = FALSE, !.calls = <<>>,
                                          !.threw = FALSE]
        /\ UNCHANGED <<touchIds, fingers>>
        /\ UNCHANGED exceptControl

NextTouch ==
    \/ TouchStart
    \/ TouchMove
    \/ TouchEnd

NextControl ==
    \/ TouchStart
    \/ TouchMove
    \/ TouchEnd
    \/ MouseDown
    \/ MouseMove
    \/ MouseUp
    \/ MouseLeave
    \/ Wheel
    \/ Toggle

\* C38: under touch events alone, touchIds holds at most two identifiers, all
\* different; a Down comes with no gesture open and an Up closes the gesture of
\* its kind, the open gesture being that of the tracked touches; a second
\* finger gives singleUp(true) then doubleDown(true), one of two lifted gives
\* doubleUp(true) then singleDown(true); and the touchmove, touchend and
\* touchcancel listeners are registered exactly while a touch is tracked.
C38_TouchGesturesBracketed ==
    /\ Len(touchIds) <= 2
    /\ Cardinality(Elements(touchIds)) = Len(touchIds)
    /\ lastEvent.bracketed
    /\ lastEvent.open = CASE Len(touchIds) = 0 -> "none"
                          [] Len(touchIds) = 1 -> "single"
                          [] OTHER -> "double"
    /\ (lastEvent.count = 1 /\ Len(touchIds) = 2)
           => lastEvent.calls = <<Callback("singleUp", <<touchIds[1]>>, TRUE),
                                  Callback("doubleDown", touchIds, TRUE)>>
    /\ (lastEvent.count = 2 /\ Len(touchIds) = 1)
           => /\ Len(lastEvent.calls) = 2
              /\ lastEvent.calls[1].f = "doubleUp" /\ lastEvent.calls[1].isSwitching
              /\ lastEvent.calls[2] = Callback("singleDown", touchIds, TRUE)
    /\ IF touchIds = <<>> THEN listeners \cap TouchTracking = {}
       ELSE TouchTracking \subseteq listeners

\* One of two tracked fingers was lifted while a third, never tracked, is on
\* the screen.
C38_Witness ==
    /\ lastEvent.type \in {"touchend", "touchcancel"}
    /\ lastEvent.count = 2
    /\ Len(touchIds) = 1
    /\ Cardinality(fingers) = 2

\* C39 (as stated): an event that comes while the control is off invokes no
\* callback, and while it is on a gesture begun with the left button, or by
\* fingers on the canvas with no other finger down, is handled without error:
\* its Down callback is invoked, not switching.
C39_OffSilentOnRestores ==
    /\ ~lastEvent.wasOn => lastEvent.calls = <<>>
    /\ (lastEvent.wasOn /\ lastEvent.fresh)
           => /\ ~lastEvent.threw
              /\ Len(lastEvent.calls) = 1
              /\ lastEvent.calls[1].f \in {"singleDown", "doubleDown"}
              /\ ~lastEvent.calls[1].isSwitching

\* ----------------------------------------------------------- specifications

SpecRender == InitRender /\ [][NextRender]_vars
SpecRenderEdge == InitRenderEdge /\ [][NextRender]_vars

SpecRng == InitRng /\ [][NextRng]_vars

SpecMerge == InitMerge /\ [][NextMerge]_vars

SpecPass == InitPass /\ [][NextPass]_vars
SpecPassEdge == InitPassEdge /\ [][NextPass]_vars

\* Every worker handles the requests of its queue, and the main thread's event
\* loop the answers and timers it has received.
SpecPassFair ==
    /\ InitPass /\ [][NextPassRuns]_vars
    /\ \A id \in Workers : WF_wq(WorkerAnswers(id))
    /\ WF_inbox(AnswerHandled)
    /\ WF_upd(FillReturned)

SpecTone == InitTone /\ [][NextTone]_vars
SpecWorker == InitWorker /\ [][NextWorker]_vars
SpecAnim == InitAnim /\ [][NextAnim]_vars

SpecTouch == InitControl /\ [][NextTouch]_vars
SpecControl == InitControl /\ [][NextControl]_vars

SpecDebounce == InitDebounce /\ [][NextDebounce]_vars

SpecRedraw == InitRedraw /\ [][NextRequests]_vars

\* A pass that runs returns (C34): the event loop runs the task in which it does.
SpecRedrawFair ==
    /\ InitRedraw /\ [][NextRequests]_vars
    /\ WF_redraws(PassReturns)

====
